---- MODULE Spec2Model ----
(***************************************************************************)
(* crumbs: the statistics aggregator (crumbs/analysis/stats.py), the data   *)
(* model it works on (crumbs/models/dataclasses.py), the LLM sentiment     *)
(* analyzer (crumbs/analysis/llm_sentiment.py) and the commit message      *)
(* parser (crumbs/git/parser.py).                                          *)
(*                                                                         *)
(* Encodings                                                               *)
(*   Optional[T]  : None is <<>>, a value x is <<x>>.                      *)
(*   dict         : a function whose DOMAIN is the key set.                *)
(*   datetime     : [epoch, utcoffset], both in seconds; epoch counts from *)
(*                  2024-01-15T00:00:00Z. Aware datetimes compare and      *)
(*                  subtract by epoch; strftime and .hour read local time. *)
(*   float        : an exact fraction [num, den] in lowest terms (the      *)
(*                  rounding of IEEE doubles is not modelled).             *)
(*   object       : a reference into heap; identity is equality of refs.   *)
(*   str          : a sequence of tokens. A token is one character (" ",   *)
(*                  "\n", "(", ")", ":", a digit) or a run of characters    *)
(*                  that the patterns read as a unit (a word of letters,   *)
(*                  the key "Co-Authored-By:").                            *)
(*   exception    : a record [raised |-> <exception class name>].          *)
(***************************************************************************)
EXTENDS Integers, Sequences, FiniteSets, TLC

VARIABLES
    commits,    \* StatsCalculator.commits
    _stats,     \* StatsCalculator._stats: None or a reference into heap
    heap,       \* the RepositoryStats objects allocated so far, by reference
    returned,   \* history: what each calculate() call returned, and its value then
    passes,     \* history: how many times the aggregation loop has run
    caller_commits, \* the caller's list, the one passed to StatsCalculator()
    threads,    \* per thread in calculate(): the line it is at, what it read
    analyzer,   \* LLMSentimentAnalyzer: api_key, batch_size, available
    arg_commits,\* the list passed to analyze_commits()
    pc,         \* where analyze_commits() is: "idle", "gather", "done"
    client,     \* the OpenRouter client: "none", "open", "closed"
    batches,    \* analyze_commits(): the batches
    tasks,      \* one per batch: its state, requests sent, outcome
    results,    \* None, or what analyze_commits() returned
    content,    \* None, or the response content handed to _parse_response
    message,    \* the commit message handed to MessageParser
    parser_result, \* None, or what the parser operation returned
    command,    \* the crumbs command invoked, with its options
    unwritable, \* the artifacts whose write raises (no image engine, no permission)
    cli_pc,     \* the place of the next call in the command's sequence of calls
    found,      \* None, or the number of commits iter_commits yielded
    called,     \* history: the calls that returned, in order
    raised,     \* history: None, or the exception that reached the command's handler
    console,    \* what the command printed
    exit_code,  \* None while the command runs, then its exit code
    report,     \* None, or the outcome of the report method called
    files       \* the artifacts written

statsVars == <<commits, _stats, heap, returned, passes, caller_commits, threads>>
sentimentVars == <<analyzer, arg_commits, pc, client, batches, tasks, results, content>>
parserVars == <<message, parser_result>>
cliVars == <<command, unwritable, cli_pc, found, called, raised, console, exit_code, report, files>>
vars == <<statsVars, sentimentVars, parserVars, cliVars>>

None == <<>>
Some(x) == <<x>>
Value(opt) == opt[1]

\* No sentiment analyzer has been constructed
NoAnalyzer ==
    /\ analyzer = None
    /\ arg_commits = <<>>
    /\ pc = "idle"
    /\ client = "none"
    /\ batches = <<>>
    /\ tasks = <<>>
    /\ results = None
    /\ content = None

\* No message is being parsed
NoMessage ==
    /\ message = None
    /\ parser_result = None

\* No command has been invoked
NoCommand ==
    /\ command = None
    /\ unwritable = {}
    /\ cli_pc = 0
    /\ found = None
    /\ called = <<>>
    /\ raised = None
    /\ console = <<>>
    /\ exit_code = None
    /\ report = None
    /\ files = {}

\* No StatsCalculator has been constructed
NoCalculator ==
    /\ commits = <<>>
    /\ _stats = None
    /\ heap = <<>>
    /\ returned = <<>>
    /\ passes = 0
    /\ caller_commits = <<>>
    /\ threads = <<>>

(***************************************************************************)
(* Bounds of the model.                                                    *)
(***************************************************************************)
MaxCommits == 3
MaxTick == 3
MaxCalls == 2
MaxLines == 101

(***************************************************************************)
(* Time.                                                                   *)
(***************************************************************************)
SecondsPerHour == 3600
SecondsPerDay == 24 * SecondsPerHour

\* The instants the model draws timestamps from: 22:00, 23:00, 01:00, 04:00, ...
\* UTC, so that successive instants lie 1, 2, 3, ... hours apart and straddle
\* midnight.
FirstTick == 22 * SecondsPerHour
Instants == {FirstTick + ((k * (k + 1)) \div 2) * SecondsPerHour : k \in 0..MaxTick}

LocalSeconds(ts) == ts.epoch + ts.utcoffset
Hour(ts) == (LocalSeconds(ts) % SecondsPerDay) \div SecondsPerHour
DateStrings == <<"2024-01-15", "2024-01-16", "2024-01-17">>
\* Mutant of StrftimeYmd: the timestamp is converted to UTC before formatting
StrftimeYmdUtc(ts) == DateStrings[(ts.epoch \div SecondsPerDay) + 1]
\* commit.timestamp.strftime("%Y-%m-%d")
StrftimeYmd(ts) == DateStrings[(LocalSeconds(ts) \div SecondsPerDay) + 1]
\* datetime.fromtimestamp(committed_date, tz=timezone.utc)
fromtimestamp(committed_date) == [epoch |-> committed_date, utcoffset |-> 0]
\* timedelta.total_seconds() of a - b
TotalSeconds(a, b) == a.epoch - b.epoch
\* datetime.__eq__ on aware datetimes
DatetimeEq(a, b) == a.epoch = b.epoch

(***************************************************************************)
(* Floats as exact fractions.                                              *)
(***************************************************************************)
RECURSIVE GCD(_, _)
GCD(a, b) == IF b = 0 THEN a ELSE GCD(b, a % b)
Frac(n, d) == LET g == GCD(n, d) IN [num |-> n \div g, den |-> d \div g]
Float(n) == Frac(n, 1)
FloatDiv(x, k) == Frac(x.num, x.den * k)

(***************************************************************************)
(* crumbs/models/dataclasses.py                                            *)
(***************************************************************************)
CommitTypes ==
    {"feat", "fix", "docs", "style", "refactor", "perf", "test", "build", "ci",
     "chore", "revert", "unknown"}

\* CommitStats.total_changes
total_changes(st) == st.lines_added + st.lines_deleted

\* Mutant of size_bucket: the thresholds compared with < in place of <=
size_bucket_exclusive(st) ==
    LET total == total_changes(st) IN
    IF total < 10 THEN "small"
    ELSE IF total < 50 THEN "medium"
    ELSE IF total < 200 THEN "large"
    ELSE "xlarge"

\* CommitStats.size_bucket
size_bucket(st) ==
    LET total == total_changes(st) IN
    IF total <= 10 THEN "small"
    ELSE IF total <= 50 THEN "medium"
    ELSE IF total <= 200 THEN "large"
    ELSE "xlarge"

\* CommitStats(): the defaults of the dataclass
CommitStatsDefault == [lines_added |-> 0, lines_deleted |-> 0, files_changed |-> 0]

\* Mutant of RepositoryStatsDefault: work_sessions defaults to 1, the value
\* _detect_work_sessions starts from
RepositoryStatsOneSession ==
    [total_commits |-> 0,
     total_lines_added |-> 0,
     total_lines_deleted |-> 0,
     total_files_changed |-> 0,
     commits_by_type |-> <<>>,
     commits_by_author |-> <<>>,
     commits_by_day |-> <<>>,
     commits_by_hour |-> <<>>,
     commits_by_phase |-> <<>>,
     size_distribution |-> <<>>,
     conventional_count |-> 0,
     co_authored_count |-> 0,
     phases_detected |-> <<>>,
     first_commit_date |-> <<>>,
     last_commit_date |-> <<>>,
     avg_commit_interval_hours |-> [num |-> 0, den |-> 1],
     work_sessions |-> 1]

\* RepositoryStats(): the defaults of the dataclass
RepositoryStatsDefault ==
    [total_commits |-> 0,
     total_lines_added |-> 0,
     total_lines_deleted |-> 0,
     total_files_changed |-> 0,
     commits_by_type |-> <<>>,
     commits_by_author |-> <<>>,
     commits_by_day |-> <<>>,
     commits_by_hour |-> <<>>,
     commits_by_phase |-> <<>>,
     size_distribution |-> <<>>,
     conventional_count |-> 0,
     co_authored_count |-> 0,
     phases_detected |-> <<>>,
     first_commit_date |-> None,
     last_commit_date |-> None,
     avg_commit_interval_hours |-> Float(0),
     work_sessions |-> 0]

\* Python's "/" on numbers: ZeroDivisionError when the divisor is 0
ZeroDivisionError == [raised |-> "ZeroDivisionError"]
TrueDiv(n, d) == IF d = 0 THEN ZeroDivisionError ELSE Frac(n, d)

\* Mutant of conventional_compliance: the check for total_commits == 0 is missing
conventional_compliance_unguarded(rs) == TrueDiv(rs.conventional_count, rs.total_commits)

\* RepositoryStats.conventional_compliance
conventional_compliance(rs) ==
    IF rs.total_commits = 0 THEN Float(0)
    ELSE TrueDiv(rs.conventional_count, rs.total_commits)

\* RepositoryStats.co_authored_percentage
co_authored_percentage(rs) ==
    IF rs.total_commits = 0 THEN Float(0)
    ELSE TrueDiv(rs.co_authored_count, rs.total_commits)

\* RepositoryStats.total_churn
total_churn(rs) == rs.total_lines_added + rs.total_lines_deleted

(***************************************************************************)
(* The commits the model draws its inputs from. A commit carries the       *)
(* fields the aggregator reads. BaseCommit (23:00 UTC) is varied in one    *)
(* aspect at a time: its instant, its UTC offset (the same instant read as *)
(* 00:00+01:00 of the next day), or one of its other fields, so that ties  *)
(* in timestamp occur between commits that differ elsewhere.               *)
(***************************************************************************)
BaseCommit ==
    [author |-> "alice",
     timestamp |-> [epoch |-> FirstTick + SecondsPerHour, utcoffset |-> 0],
     stats |-> CommitStatsDefault,
     commit_type |-> "unknown",
     co_authors |-> <<>>,
     phase |-> None,
     is_conventional |-> FALSE]

TimeVariants ==
    {[BaseCommit EXCEPT !.timestamp.epoch = t] : t \in Instants}
    \cup {[BaseCommit EXCEPT !.timestamp.utcoffset = SecondsPerHour]}

FieldVariants ==
    {[BaseCommit EXCEPT !.commit_type = "feat", !.is_conventional = TRUE],
     [BaseCommit EXCEPT !.author = "bob"],
     [BaseCommit EXCEPT !.phase = Some(1)],
     [BaseCommit EXCEPT !.phase = Some(2)],
     [BaseCommit EXCEPT !.stats = [lines_added |-> 30, lines_deleted |-> 21, files_changed |-> 2]],
     [BaseCommit EXCEPT !.stats = [lines_added |-> 201, lines_deleted |-> 0, files_changed |-> 3]],
     [BaseCommit EXCEPT !.co_authors = <<"Claude <claude@anthropic.com>">>]}

Commits == TimeVariants \cup FieldVariants

\* The commits the order of a list matters to or could matter to: the time
\* variants, and other fields varied at one instant.
OrderCommits ==
    TimeVariants
    \cup {[BaseCommit EXCEPT !.commit_type = "feat", !.is_conventional = TRUE],
          [BaseCommit EXCEPT !.phase = Some(2)],
          [BaseCommit EXCEPT !.stats = [lines_added |-> 201, lines_deleted |-> 0, files_changed |-> 3]]}

\* Commits whose line counts range over 0..MaxLines each.
SizedCommits ==
    {[BaseCommit EXCEPT !.stats = [lines_added |-> a, lines_deleted |-> d, files_changed |-> 1]] :
        a \in 0..MaxLines, d \in 0..MaxLines}

ListsOf(S, n) == UNION {[1..k -> S] : k \in 0..n}

(***************************************************************************)
(* crumbs/analysis/stats.py                                                *)
(***************************************************************************)
SESSION_GAP_HOURS == 2

\* Mutant of InsertByTimestamp: the list is taken in input order, never sorted
InsertAtEnd(sorted, c) == Append(sorted, c)

\* Mutant of InsertByTimestamp: sorted(..., reverse=True)
InsertByTimestampDescending(sorted, c) ==
    LET k == Cardinality({i \in DOMAIN sorted : sorted[i].timestamp.epoch >= c.timestamp.epoch})
    IN SubSeq(sorted, 1, k) \o <<c>> \o SubSeq(sorted, k + 1, Len(sorted))

\* sorted(..., key=lambda c: c.timestamp) puts c into an already sorted list:
\* after every element whose key is not greater (the sort is stable).
InsertByTimestamp(sorted, c) ==
    LET k == Cardinality({i \in DOMAIN sorted : sorted[i].timestamp.epoch <= c.timestamp.epoch})
    IN SubSeq(sorted, 1, k) \o <<c>> \o SubSeq(sorted, k + 1, Len(sorted))

RECURSIVE SortedByTimestamp(_)
SortedByTimestamp(cs) ==
    IF cs = <<>> THEN <<>>
    ELSE InsertByTimestamp(SortedByTimestamp(SubSeq(cs, 1, Len(cs) - 1)), cs[Len(cs)])

\* Mutant of Increment: a missing key is created without being counted
IncrementFromZero(d, k) ==
    IF k \in DOMAIN d THEN [d EXCEPT ![k] = @ + 1] ELSE d @@ (k :> 0)

\* Mutant of Increment: d[k] = 1 in place of d[k] += 1
IncrementAssigns(d, k) ==
    IF k \in DOMAIN d THEN [d EXCEPT ![k] = 1] ELSE d @@ (k :> 1)

\* d[k] += 1 on a defaultdict(int)
Increment(d, k) ==
    IF k \in DOMAIN d THEN [d EXCEPT ![k] = @ + 1] ELSE d @@ (k :> 1)

\* The counters before the loop
Counters ==
    [commits_by_type |-> <<>>,
     commits_by_author |-> <<>>,
     commits_by_day |-> <<>>,
     commits_by_hour |-> <<>>,
     commits_by_phase |-> <<>>,
     size_distribution |-> <<>>,
     total_lines_added |-> 0,
     total_lines_deleted |-> 0,
     total_files_changed |-> 0,
     conventional_count |-> 0,
     co_authored_count |-> 0,
     phases_detected |-> {}]

\* One iteration of the loop over sorted_commits
LoopBody(acc, commit) ==
    [commits_by_type |-> Increment(acc.commits_by_type, commit.commit_type),
     commits_by_author |-> Increment(acc.commits_by_author, commit.author),
     commits_by_day |-> Increment(acc.commits_by_day, StrftimeYmd(commit.timestamp)),
     commits_by_hour |-> Increment(acc.commits_by_hour, Hour(commit.timestamp)),
     commits_by_phase |->
        IF commit.phase # None
        THEN Increment(acc.commits_by_phase, Value(commit.phase))
        ELSE acc.commits_by_phase,
     size_distribution |-> Increment(acc.size_distribution, size_bucket(commit.stats)),
     total_lines_added |-> acc.total_lines_added + commit.stats.lines_added,
     total_lines_deleted |-> acc.total_lines_deleted + commit.stats.lines_deleted,
     total_files_changed |-> acc.total_files_changed + commit.stats.files_changed,
     conventional_count |->
        IF commit.is_conventional THEN acc.conventional_count + 1 ELSE acc.conventional_count,
     co_authored_count |->
        IF commit.co_authors # <<>> THEN acc.co_authored_count + 1 ELSE acc.co_authored_count,
     phases_detected |->
        IF commit.phase # None
        THEN acc.phases_detected \cup {Value(commit.phase)}
        ELSE acc.phases_detected]

RECURSIVE Loop(_, _, _)
Loop(sorted_commits, i, acc) ==
    IF i > Len(sorted_commits) THEN acc
    ELSE Loop(sorted_commits, i + 1, LoopBody(acc, sorted_commits[i]))

\* Mutant of SortedInts: sorted(..., reverse=True)
RECURSIVE SortedIntsDescending(_)
SortedIntsDescending(S) ==
    IF S = {} THEN <<>>
    ELSE LET m == CHOOSE x \in S : \A y \in S : x >= y
         IN <<m>> \o SortedIntsDescending(S \ {m})

\* sorted(a set of ints)
RECURSIVE SortedInts(_)
SortedInts(S) ==
    IF S = {} THEN <<>>
    ELSE LET m == CHOOSE x \in S : \A y \in S : x <= y
         IN <<m>> \o SortedInts(S \ {m})

\* StatsCalculator._calculate_avg_interval
RECURSIVE SumDeltas(_, _)
SumDeltas(sorted_commits, i) ==
    IF i > Len(sorted_commits) THEN 0
    ELSE TotalSeconds(sorted_commits[i].timestamp, sorted_commits[i - 1].timestamp)
         + SumDeltas(sorted_commits, i + 1)

\* Mutant of _calculate_avg_interval: divides by the number of commits
AvgIntervalOverCommits(sorted_commits) ==
    IF Len(sorted_commits) < 2 THEN Float(0)
    ELSE LET total_seconds == Float(SumDeltas(sorted_commits, 2))
             avg_seconds == FloatDiv(total_seconds, Len(sorted_commits))
         IN FloatDiv(avg_seconds, SecondsPerHour)

_calculate_avg_interval(sorted_commits) ==
    IF Len(sorted_commits) < 2 THEN Float(0)
    ELSE LET total_seconds == Float(SumDeltas(sorted_commits, 2))
             avg_seconds == FloatDiv(total_seconds, Len(sorted_commits) - 1)
         IN FloatDiv(avg_seconds, SecondsPerHour)

\* Mutant of ExceedsGap: delta >= gap_threshold
ReachesGap(delta_seconds) == delta_seconds >= SESSION_GAP_HOURS * SecondsPerHour

\* The comparison of _detect_work_sessions: delta > gap_threshold
ExceedsGap(delta_seconds) == delta_seconds > SESSION_GAP_HOURS * SecondsPerHour

\* StatsCalculator._detect_work_sessions
RECURSIVE CountSessions(_, _, _)
CountSessions(sorted_commits, i, sessions) ==
    IF i > Len(sorted_commits) THEN sessions
    ELSE CountSessions(
            sorted_commits, i + 1,
            IF ExceedsGap(TotalSeconds(sorted_commits[i].timestamp,
                                       sorted_commits[i - 1].timestamp))
            THEN sessions + 1 ELSE sessions)

_detect_work_sessions(sorted_commits) ==
    IF sorted_commits = <<>> THEN 0 ELSE CountSessions(sorted_commits, 2, 1)

\* The RepositoryStats that calculate() builds from a non-empty self.commits
Aggregate(cs) ==
    LET sorted_commits == SortedByTimestamp(cs)
        acc == Loop(sorted_commits, 1, Counters)
    IN [total_commits |-> Len(sorted_commits),
        total_lines_added |-> acc.total_lines_added,
        total_lines_deleted |-> acc.total_lines_deleted,
        total_files_changed |-> acc.total_files_changed,
        commits_by_type |-> acc.commits_by_type,
        commits_by_author |-> acc.commits_by_author,
        commits_by_day |-> acc.commits_by_day,
        commits_by_hour |-> acc.commits_by_hour,
        commits_by_phase |-> acc.commits_by_phase,
        size_distribution |-> acc.size_distribution,
        conventional_count |-> acc.conventional_count,
        co_authored_count |-> acc.co_authored_count,
        phases_detected |-> SortedInts(acc.phases_detected),
        first_commit_date |-> Some(sorted_commits[1].timestamp),
        last_commit_date |-> Some(sorted_commits[Len(sorted_commits)].timestamp),
        avg_commit_interval_hours |-> _calculate_avg_interval(sorted_commits),
        work_sessions |-> _detect_work_sessions(sorted_commits)]

\* Mutant of CacheHit: the cache check is missing
CacheNeverHit == FALSE

\* if self._stats is not None
CacheHit == _stats # None

\* if not self.commits
NoCommits == commits = <<>>

\* A calculate() call returns the object ref
Return(ref, h) == Append(returned, [ref |-> ref, seen |-> h[ref]])

\* calculate(), cache hit: return self._stats
CalculateCached ==
    /\ Len(returned) < MaxCalls
    /\ CacheHit
    /\ returned' = Return(Value(_stats), heap)
    /\ UNCHANGED <<commits, _stats, heap, passes, caller_commits, threads>>
    /\ UNCHANGED <<sentimentVars, parserVars, cliVars>>

\* calculate(), no commits: self._stats = RepositoryStats()
CalculateEmpty ==
    /\ Len(returned) < MaxCalls
    /\ ~CacheHit
    /\ NoCommits
    /\ heap' = Append(heap, RepositoryStatsDefault)
    /\ _stats' = Some(Len(heap'))
    /\ returned' = Return(Len(heap'), heap')
    /\ UNCHANGED <<commits, passes, caller_commits, threads>>
    /\ UNCHANGED <<sentimentVars, parserVars, cliVars>>

\* calculate(), the aggregation: sort, loop, build and cache the result
CalculateAggregate ==
    /\ Len(returned) < MaxCalls
    /\ ~CacheHit
    /\ ~NoCommits
    /\ heap' = Append(heap, Aggregate(commits))
    /\ _stats' = Some(Len(heap'))
    /\ passes' = passes + 1
    /\ returned' = Return(Len(heap'), heap')
    /\ UNCHANGED <<commits, caller_commits, threads>>
    /\ UNCHANGED <<sentimentVars, parserVars, cliVars>>

\* StatsCalculator.calculate
calculate ==
    \/ CalculateCached
    \/ CalculateEmpty
    \/ CalculateAggregate

\* StatsCalculator.__init__
InitCalculator(cs) ==
    /\ caller_commits = cs
    /\ threads = <<>>
    /\ commits = cs
    /\ _stats = None
    /\ heap = <<>>
    /\ returned = <<>>
    /\ passes = 0
    /\ NoAnalyzer
    /\ NoMessage
    /\ NoCommand

Init == \E cs \in ListsOf(Commits, MaxCommits) : InitCalculator(cs)

\* A calculator on at most one commit, of any size
InitSized == \E cs \in ListsOf(SizedCommits, 1) : InitCalculator(cs)

\* A calculator on a list whose order is varied
InitOrder == \E cs \in ListsOf(OrderCommits, MaxCommits) : InitCalculator(cs)

Next == calculate

Spec == Init /\ [][Next]_vars

SpecSized == InitSized /\ [][Next]_vars

SpecOrder == InitOrder /\ [][Next]_vars

(***************************************************************************)
(* Properties.                                                             *)
(***************************************************************************)
Done == _stats # None
Result == heap[Value(_stats)]

RECURSIVE SumOver(_, _)
SumOver(d, keys) ==
    IF keys = {} THEN 0
    ELSE LET k == CHOOSE x \in keys : TRUE IN d[k] + SumOver(d, keys \ {k})
SumValues(d) == SumOver(d, DOMAIN d)

Mappings(rs) ==
    <<rs.commits_by_type, rs.commits_by_author, rs.commits_by_day,
      rs.commits_by_hour, rs.commits_by_phase, rs.size_distribution>>

\* C1: after calculate() on a non-empty commit collection the values of
\* commits_by_type sum to total_commits, the values of size_distribution sum to
\* total_commits, and every stored count is non-negative.
C1_CountsSumToTotal ==
    (Done /\ commits # <<>>) =>
        /\ Result.total_commits = Len(commits)
        /\ SumValues(Result.commits_by_type) = Result.total_commits
        /\ SumValues(Result.size_distribution) = Result.total_commits
        /\ \A m \in 1..6 : \A k \in DOMAIN Mappings(Result)[m] : Mappings(Result)[m][k] >= 0
        /\ Result.total_lines_added >= 0
        /\ Result.total_lines_deleted >= 0
        /\ Result.total_files_changed >= 0
        /\ Result.conventional_count >= 0
        /\ Result.co_authored_count >= 0

\* C1 witness: a result in which one commit type was counted twice beside
\* another type, and two size buckets occur.
C1_Witness ==
    /\ Done
    /\ Cardinality(DOMAIN Result.commits_by_type) >= 2
    /\ \E t \in DOMAIN Result.commits_by_type : Result.commits_by_type[t] >= 2
    /\ Cardinality(DOMAIN Result.size_distribution) >= 2

\* C2: two calculate() calls in sequence on one calculator return the very same
\* object; the second runs no aggregation pass, allocates nothing and leaves the
\* cached value as it was.
C2_SecondCallReturnsCached ==
    \A i, j \in DOMAIN returned :
        /\ returned[i].ref = returned[j].ref
        /\ returned[i].seen = returned[j].seen
        /\ Len(heap) = 1
        /\ _stats = Some(returned[i].ref)
        /\ heap[returned[i].ref] = returned[i].seen
        /\ passes = (IF commits = <<>> THEN 0 ELSE 1)

\* C2 witness: calculate() was called twice on a non-empty collection.
C2_Witness == Len(returned) >= 2 /\ passes = 1 /\ Len(commits) >= 2

\* RepositoryStats.__eq__ as the dataclass generates it: field by field, the two
\* dates by datetime.__eq__
OptionalDatetimeEq(a, b) ==
    IF a = None \/ b = None THEN a = b ELSE DatetimeEq(Value(a), Value(b))
RepositoryStatsEq(a, b) ==
    /\ [a EXCEPT !.first_commit_date = None, !.last_commit_date = None]
         = [b EXCEPT !.first_commit_date = None, !.last_commit_date = None]
    /\ OptionalDatetimeEq(a.first_commit_date, b.first_commit_date)
    /\ OptionalDatetimeEq(a.last_commit_date, b.last_commit_date)

IndexPermutations(n) == {p \in [1..n -> 1..n] : \A i, j \in 1..n : p[i] = p[j] => i = j}
Permuted(cs, p) == [i \in 1..Len(cs) |-> cs[p[i]]]
SameOffset(cs) == \A i, j \in DOMAIN cs : cs[i].timestamp.utcoffset = cs[j].timestamp.utcoffset

\* C3: a calculator built on any permutation of the commit list produces a
\* RepositoryStats equal field by field to the one built on the list itself, ties
\* in timestamp included (the very same value when the commits share one UTC offset).
C3_OrderIndependent ==
    (Len(returned) = 1 /\ commits # <<>>) =>
        \A p \in IndexPermutations(Len(commits)) :
            LET other == Aggregate(Permuted(commits, p)) IN
            /\ RepositoryStatsEq(other, Result)
            /\ SameOffset(commits) => other = Result

\* C3 witness: a result for a list that is out of timestamp order and holds two
\* different commits with one timestamp.
C3_Witness ==
    /\ Len(returned) = 1
    /\ \E i, j \in DOMAIN commits :
          i < j /\ commits[i].timestamp.epoch > commits[j].timestamp.epoch
    /\ \E i, j \in DOMAIN commits :
          /\ commits[i] # commits[j]
          /\ commits[i].timestamp = commits[j].timestamp

\* The k-th smallest instant among the commits' timestamps (k from 1)
KthInstant(cs, k) ==
    CHOOSE t \in {cs[i].timestamp.epoch : i \in DOMAIN cs} :
        /\ Cardinality({i \in DOMAIN cs : cs[i].timestamp.epoch < t}) < k
        /\ k <= Cardinality({i \in DOMAIN cs : cs[i].timestamp.epoch <= t})
\* The gap in seconds between the k-th and the (k+1)-th commit in timestamp order
Gap(cs, k) == KthInstant(cs, k + 1) - KthInstant(cs, k)
RECURSIVE SumGaps(_, _)
SumGaps(cs, k) == IF k = 0 THEN 0 ELSE Gap(cs, k) + SumGaps(cs, k - 1)

C5_AvgInterval ==
    Done =>
        LET avg == Result.avg_commit_interval_hours
            n == Len(commits)
        IN /\ avg.den > 0
           /\ IF n < 2 THEN avg.num = 0
              ELSE avg.num * ((n - 1) * 3600) = SumGaps(commits, n - 1) * avg.den

\* C5 witness: a result for three commits out of timestamp order with two
\* different gaps, whose average is no whole number of hours.
C5_Witness ==
    /\ Done
    /\ Len(commits) = 3
    /\ commits[1].timestamp.epoch > commits[3].timestamp.epoch
    /\ Gap(commits, 1) # Gap(commits, 2)
    /\ Result.avg_commit_interval_hours.den > 1

Epochs(cs) == {cs[i].timestamp.epoch : i \in DOMAIN cs}

\* C6: first_commit_date and last_commit_date are both absent exactly when the
\* collection is empty; otherwise they are the minimum and the maximum timestamp
\* over all commits, whatever the input order.
C6_DateRange ==
    Done =>
        /\ (Result.first_commit_date = None) <=> (commits = <<>>)
        /\ (Result.last_commit_date = None) <=> (commits = <<>>)
        /\ commits # <<>> =>
            /\ \E i \in DOMAIN commits : Value(Result.first_commit_date) = commits[i].timestamp
            /\ \E i \in DOMAIN commits : Value(Result.last_commit_date) = commits[i].timestamp
            /\ \A t \in Epochs(commits) :
                 /\ Value(Result.first_commit_date).epoch <= t
                 /\ t <= Value(Result.last_commit_date).epoch

\* C6 witness: a result for a list whose first element is its latest commit and
\* whose last element is neither the earliest nor the latest.
C6_Witness ==
    /\ Done
    /\ Len(commits) = 3
    /\ commits[1].timestamp.epoch > commits[3].timestamp.epoch
    /\ commits[3].timestamp.epoch > commits[2].timestamp.epoch
    /\ Value(Result.first_commit_date) = commits[2].timestamp
    /\ Value(Result.last_commit_date) = commits[1].timestamp

\* C7: calculate() on an empty collection returns a RepositoryStats with every
\* scalar 0, every mapping and phases_detected empty, and no first or last date.
C7_EmptyDefaults ==
    (Done /\ commits = <<>>) =>
        /\ Result.total_commits = 0
        /\ Result.total_lines_added = 0
        /\ Result.total_lines_deleted = 0
        /\ Result.total_files_changed = 0
        /\ Result.conventional_count = 0
        /\ Result.co_authored_count = 0
        /\ Result.avg_commit_interval_hours.num = 0
        /\ Result.work_sessions = 0
        /\ \A m \in 1..6 : DOMAIN Mappings(Result)[m] = {}
        /\ Len(Result.phases_detected) = 0
        /\ Result.first_commit_date = None
        /\ Result.last_commit_date = None
        /\ passes = 0

\* C7 witness: calculate() has returned for a calculator built on the empty list.
C7_Witness == Len(returned) >= 1 /\ commits = <<>> /\ Done

Buckets == {"small", "medium", "large", "xlarge"}
\* The range of total_changes each bucket stands for
InBucket(b, total) ==
    CASE b = "small" -> total <= 10
      [] b = "medium" -> 11 <= total /\ total <= 50
      [] b = "large" -> 51 <= total /\ total <= 200
      [] b = "xlarge" -> total >= 201
Changes(c) == c.stats.lines_added + c.stats.lines_deleted

\* C8: size_bucket is small for total_changes <= 10, medium for 11..50, large for
\* 51..200 and xlarge from 201 on, with total_changes = lines_added +
\* lines_deleted; exactly one bucket applies to every value.
C8_SizeBucket ==
    Done =>
        /\ \A i \in DOMAIN commits :
             Cardinality({b \in Buckets : InBucket(b, Changes(commits[i]))}) = 1
        /\ DOMAIN Result.size_distribution \subseteq Buckets
        /\ \A b \in Buckets :
             Cardinality({i \in DOMAIN commits : InBucket(b, Changes(commits[i]))})
               = IF b \in DOMAIN Result.size_distribution
                 THEN Result.size_distribution[b] ELSE 0

\* C8 witness: a commit of exactly 200 changed lines, added and deleted, was
\* counted as large.
C8_Witness ==
    /\ Done
    /\ Len(commits) = 1
    /\ commits[1].stats.lines_added > 0
    /\ commits[1].stats.lines_deleted > 0
    /\ Changes(commits[1]) = 200
    /\ DOMAIN Result.size_distribution = {"large"}

\* The ratio count / total as the code returns it: no error, 0.0 for total = 0
IsRatio(x, count, total) ==
    /\ x # ZeroDivisionError
    /\ x.den > 0
    /\ IF total = 0 THEN x.num = 0 ELSE x.num * total = count * x.den

\* A RepositoryStats built directly, as RepositoryStats(total_commits=t, ...)
Constructed(t, conv, co) ==
    [RepositoryStatsDefault EXCEPT
        !.total_commits = t, !.conventional_count = conv, !.co_authored_count = co]

\* C9: conventional_compliance is conventional_count / total_commits when
\* total_commits > 0 and 0.0 when it is 0, co_authored_percentage likewise from
\* co_authored_count; neither divides by zero. Stated of every result of
\* calculate() and of every RepositoryStats constructed with small counts.
C9_Ratios ==
    Done =>
        /\ IsRatio(conventional_compliance(Result),
                   Cardinality({i \in DOMAIN commits : commits[i].is_conventional}),
                   Len(commits))
        /\ IsRatio(co_authored_percentage(Result),
                   Cardinality({i \in DOMAIN commits : commits[i].co_authors # <<>>}),
                   Len(commits))
        /\ \A t \in 0..Len(commits) : \A conv, co \in 0..t :
             /\ IsRatio(conventional_compliance(Constructed(t, conv, co)), conv, t)
             /\ IsRatio(co_authored_percentage(Constructed(t, conv, co)), co, t)

\* C9 witness: a result in which some but not all commits are conventional and
\* some but not all are co-authored.
C9_Witness ==
    /\ Done
    /\ 0 < Result.conventional_count
    /\ Result.conventional_count < Result.total_commits
    /\ 0 < Result.co_authored_count
    /\ Result.co_authored_count < Result.total_commits
    /\ conventional_compliance(Result).den > 1

Range(seq) == {seq[i] : i \in DOMAIN seq}

\* C10: phases_detected is strictly ascending and holds exactly the phase numbers
\* carried by at least one commit; it is the key set of commits_by_phase.
C10_PhasesDetected ==
    Done =>
        LET ph == Result.phases_detected IN
        /\ \A i, j \in DOMAIN ph : i < j => ph[i] < ph[j]
        /\ Range(ph) = {Value(commits[i].phase) : i \in {k \in DOMAIN commits : commits[k].phase # None}}
        /\ Range(ph) = DOMAIN Result.commits_by_phase

\* C10 witness: a result for commits that carry phase 2 before phase 1, one phase
\* twice and one commit without a phase.
C10_Witness ==
    /\ Done
    /\ Len(commits) = 3
    /\ commits[1].phase = Some(2)
    /\ commits[2].phase = Some(1)
    /\ commits[3].phase = Some(2)
    /\ Result.phases_detected = <<1, 2>>

\* The count a mapping holds for a key, 0 when the key is absent
CountOf(d, k) == IF k \in DOMAIN d THEN d[k] ELSE 0
\* How many commits of cs satisfy P
HowMany(cs, P(_)) == Cardinality({i \in DOMAIN cs : P(cs[i])})
DayIndexes == 0..(Len(DateStrings) - 1)
Hours == 0..23
\* All timestamps are as GitRepository._convert_commit builds them
AllFromTimestamp(cs) ==
    \A i \in DOMAIN cs : cs[i].timestamp = fromtimestamp(cs[i].timestamp.epoch)

\* C11 (as amended): calculate() counts every commit in commits_by_day under the
\* calendar date, and in commits_by_hour under the hour 0-23, that its timestamp
\* shows at the UTC offset it carries; these are the UTC date and the UTC hour
\* when the offset is zero, as for every commit GitRepository builds.
C11_KeysAreWallClock ==
    Done =>
        /\ \A d \in DayIndexes :
              CountOf(Result.commits_by_day, DateStrings[d + 1]) =
                  LET OnDay(c) == (c.timestamp.epoch + c.timestamp.utcoffset) \div SecondsPerDay = d
                  IN HowMany(commits, OnDay)
        /\ DOMAIN Result.commits_by_day \subseteq Range(DateStrings)
        /\ \A h \in Hours :
              CountOf(Result.commits_by_hour, h) =
                  LET InHour(c) ==
                        ((c.timestamp.epoch + c.timestamp.utcoffset) % SecondsPerDay)
                            \div SecondsPerHour = h
                  IN HowMany(commits, InHour)
        /\ DOMAIN Result.commits_by_hour \subseteq Hours
        /\ AllFromTimestamp(commits) =>
              /\ \A d \in DayIndexes :
                    CountOf(Result.commits_by_day, DateStrings[d + 1]) =
                        LET OnUtcDay(c) == c.timestamp.epoch \div SecondsPerDay = d
                        IN HowMany(commits, OnUtcDay)
              /\ \A h \in Hours :
                    CountOf(Result.commits_by_hour, h) =
                        LET InUtcHour(c) ==
                              (c.timestamp.epoch % SecondsPerDay) \div SecondsPerHour = h
                        IN HowMany(commits, InUtcHour)

\* C11 (as stated): every commit is counted under the UTC calendar date and the
\* UTC hour of its timestamp, whatever UTC offset the timestamp carries.
C11_KeysAreUtc ==
    Done =>
        /\ \A d \in DayIndexes :
              CountOf(Result.commits_by_day, DateStrings[d + 1]) =
                  LET OnUtcDay(c) == c.timestamp.epoch \div SecondsPerDay = d
                  IN HowMany(commits, OnUtcDay)
        /\ \A h \in Hours :
              CountOf(Result.commits_by_hour, h) =
                  LET InUtcHour(c) ==
                        (c.timestamp.epoch % SecondsPerDay) \div SecondsPerHour = h
                  IN HowMany(commits, InUtcHour)

\* C11 witness: a result over a commit at 23:00 UTC written with offset +01:00
\* (wall clock 00:00 the next day) and a commit at the same instant in UTC.
C11_Witness ==
    /\ Done
    /\ \E i, j \in DOMAIN commits :
          /\ commits[i].timestamp.utcoffset = SecondsPerHour
          /\ commits[j].timestamp.utcoffset = 0
          /\ commits[i].timestamp.epoch = commits[j].timestamp.epoch
          /\ commits[i].timestamp.epoch \div SecondsPerDay = 0
          /\ Result.commits_by_day = [k \in {DateStrings[1], DateStrings[2]} |-> 1]
          /\ Len(commits) = 2

(***************************************************************************)
(* crumbs/analysis/llm_sentiment.py: LLMSentimentAnalyzer.                 *)
(*                                                                         *)
(* A call that can raise yields [raised, value]: raised is "" and value    *)
(* what it returned, or raised is the exception class and value what the   *)
(* call had built so far.                                                  *)
(* A response content is None or Some([prose, doc]): doc is the JSON       *)
(* document in it, prose says that text without brackets surrounds it.     *)
(* A doc is [type, bracketed, items]: "array" with its items, "object"     *)
(* with the one object as items[1], or "invalid" (not JSON), which may     *)
(* still hold a "[" before a "]". An item is a JSON object with optional   *)
(* members or, with type "string", a JSON string.                          *)
(***************************************************************************)
MaxAnalyzed == 3
MaxBatchSize == 2
MaxItems == 2

Returns(v) == [raised |-> "", value |-> v]
Raises(e, partial) == [raised |-> e, value |-> partial]

\* config.py: OPENROUTER_API_KEY = os.getenv("OPENROUTER_API_KEY"), unset
OPENROUTER_API_KEY == None
\* config.py: SENTIMENT_BATCH_SIZE = int(os.getenv("SENTIMENT_BATCH_SIZE", "5"))
SENTIMENT_BATCH_SIZE == 5

\* Mutant of TruthyStr: the empty string counts as a key
TruthyStrNotNone(x) == x # None
\* bool(x) of an Optional[str]
TruthyStr(x) == x # None /\ Value(x) # ""
\* a or b, on Optional[str]
OrStr(a, b) == IF TruthyStr(a) THEN a ELSE b
\* a or b, on Optional[int] and int
OrInt(a, b) == IF a # None /\ Value(a) # 0 THEN Value(a) ELSE b

\* Mutant of Slice: s in place of s[:n]
SliceWhole(s, n) == s
\* s[:n]
Slice(s, n) == SubSeq(s, 1, IF Len(s) < n THEN Len(s) ELSE n)
ShaPrefixLen == 8

Digits == <<"1", "2", "3", "4", "5", "6", "7", "8", "9">>
\* The i-th commit handed to the analyzer: sha "abc00<i>def"
AnalyzedCommit(i) == [sha |-> <<"a", "b", "c", "0", "0", Digits[i], "d", "e", "f">>]
AnalyzedCommits(n) == [i \in 1..n |-> AnalyzedCommit(i)]
Unknown == <<"u", "n", "k", "n", "o", "w", "n">>

SentimentLabels == {"positive", "neutral", "negative"}
\* max(0.0, min(1.0, confidence))
Clamp(q) ==
    IF q.num < 0 THEN Float(0)
    ELSE IF q.num > q.den THEN Float(1)
    ELSE q
\* Mutant of SentimentResult: the fields are stored as given
SentimentResultAsGiven(sha, sentiment, confidence, tone, summary) ==
    [sha |-> sha, sentiment |-> sentiment, confidence |-> confidence,
     tone |-> tone, summary |-> summary]
\* SentimentResult(sha, sentiment, confidence, tone, summary)
SentimentResult(sha, sentiment, confidence, tone, summary) ==
    [sha |-> sha,
     sentiment |-> IF sentiment \in SentimentLabels THEN sentiment ELSE "neutral",
     confidence |-> Clamp(confidence),
     tone |-> tone,
     summary |-> summary]

\* JSON values a "confidence" member can hold
JsonNumber(q) == [type |-> "number", numeric |-> TRUE, value |-> q]
JsonNumeral(q) == [type |-> "string", numeric |-> TRUE, value |-> q]
JsonWord == [type |-> "string", numeric |-> FALSE, value |-> Float(0)]
JsonNull == [type |-> "null", numeric |-> FALSE, value |-> Float(0)]
\* float(x)
float(x) ==
    IF x.type = "number" THEN Returns(x.value)
    ELSE IF x.type = "string"
         THEN IF x.numeric THEN Returns(x.value)
              ELSE Raises("ValueError", Float(0))
    ELSE Raises("TypeError", Float(0))

\* item.get(key, default)
Get(item, key, default) == IF item[key] # None THEN Value(item[key]) ELSE default

EmptyObject ==
    [type |-> "object", sha |-> None, sentiment |-> None, confidence |-> None,
     tone |-> None, summary |-> None]
JsonString == [EmptyObject EXCEPT !.type = "string"]

\* re.search(r"\[.*\]", content, re.DOTALL): the span from the first "[" to
\* the last "]", which in these contents is the whole document; None without one
ReSearch(text) ==
    IF text.doc.bracketed THEN Some([prose |-> FALSE, doc |-> text.doc]) ELSE None

\* json.loads(json_str)
JsonLoads(text) ==
    IF text.prose \/ text.doc.type = "invalid"
    THEN Raises("JSONDecodeError", <<>>)
    ELSE Returns(text.doc)

\* The placeholders of the except branch, one per commit
Placeholders(cs) ==
    [i \in DOMAIN cs |->
        SentimentResult(Slice(cs[i].sha, ShaPrefixLen), "neutral", Float(0),
                        "unknown", "Analysis failed")]

\* The body of "for i, item in enumerate(parsed)" for the i-th item
ParseItem(item, i, cs) ==
    IF item.type # "object" THEN Raises("AttributeError", <<>>)
    ELSE LET sha == Get(item, "sha",
                        IF i - 1 < Len(cs) THEN Slice(cs[i].sha, ShaPrefixLen)
                        ELSE Unknown)
             confidence == float(Get(item, "confidence", JsonNumber(Frac(1, 2))))
         IN IF confidence.raised # "" THEN Raises(confidence.raised, <<>>)
            ELSE Returns(<<SentimentResult(sha,
                                           Get(item, "sentiment", "neutral"),
                                           confidence.value,
                                           Get(item, "tone", "unknown"),
                                           Get(item, "summary", ""))>>)

\* The loop over parsed from item i on, results being what is appended so far
RECURSIVE ParseItems(_, _, _, _)
ParseItems(parsed, i, cs, acc) ==
    IF i > Len(parsed) THEN Returns(acc)
    ELSE LET r == ParseItem(parsed[i], i, cs)
         IN IF r.raised # "" THEN Raises(r.raised, acc)
            ELSE ParseItems(parsed, i + 1, cs, acc \o r.value)

\* except (json.JSONDecodeError, KeyError, IndexError)
Caught == {"JSONDecodeError", "KeyError", "IndexError"}

\* The try block of _parse_response
TryParse(text, cs) ==
    LET json_match == ReSearch(text)
        json_str == IF json_match # None THEN Value(json_match) ELSE text
        loaded == JsonLoads(json_str)
    IN IF loaded.raised # "" THEN loaded
       ELSE LET parsed == IF loaded.value.type = "array"
                          THEN loaded.value.items
                          ELSE <<loaded.value.items[1]>>
            IN ParseItems(parsed, 1, cs, <<>>)

\* LLMSentimentAnalyzer._parse_response(content, commits)
_parse_response(c, cs) ==
    IF c = None THEN Raises("TypeError", <<>>)
    ELSE LET r == TryParse(Value(c), cs)
         IN IF r.raised \in Caught
            THEN Returns(r.value \o Placeholders(cs))
            ELSE r

\* LLMSentimentAnalyzer.__init__(api_key, batch_size)
NewAnalyzer(api_key, batch_size) ==
    LET key == OrStr(api_key, OPENROUTER_API_KEY) IN
    [api_key |-> key,
     batch_size |-> OrInt(batch_size, SENTIMENT_BATCH_SIZE),
     available |-> TruthyStr(key)]

self == Value(analyzer)

\* Mutant of BatchesFrom: a last batch shorter than batch_size is dropped
RECURSIVE BatchesFullOnly(_, _, _)
BatchesFullOnly(cs, i, batch_size) ==
    IF i + batch_size > Len(cs) THEN <<>>
    ELSE <<SubSeq(cs, i + 1, i + batch_size)>> \o BatchesFullOnly(cs, i + batch_size, batch_size)

\* [commits[i:i + batch_size] for i in range(i, len(commits), batch_size)]
RECURSIVE BatchesFrom(_, _, _)
BatchesFrom(cs, i, batch_size) ==
    IF i >= Len(cs) THEN <<>>
    ELSE <<SubSeq(cs, i + 1, IF i + batch_size < Len(cs) THEN i + batch_size ELSE Len(cs))>>
         \o BatchesFrom(cs, i + batch_size, batch_size)

\* The coroutine _analyze_batch(client, batch), before it runs
\* (finished: history, the place of the task in the order of completion)
NewTask ==
    [state |-> "created", requests |-> <<>>, response |-> None, outcome |-> Returns(<<>>),
     finished |-> 0]
\* The place in the order of completion of the task that completes next
NextFinished == Cardinality({k \in DOMAIN tasks : tasks[k].state = "done"}) + 1

\* The prompt lists "- {c.sha[:8]}: ..." for each commit of the batch
Prompt(batch) == [i \in DOMAIN batch |-> Slice(batch[i].sha, ShaPrefixLen)]

\* What the service may answer to the prompt of a batch
GoodItem(c) ==
    [type |-> "object", sha |-> Some(Slice(c.sha, ShaPrefixLen)), sentiment |-> Some("positive"),
     confidence |-> Some(JsonNumber(Frac(9, 10))), tone |-> Some("confident"),
     summary |-> Some("Good progress")]
Array(items) == [type |-> "array", bracketed |-> TRUE, items |-> items]
Object(item) == [type |-> "object", bracketed |-> FALSE, items |-> <<item>>]
Invalid(bracketed) == [type |-> "invalid", bracketed |-> bracketed, items |-> <<>>]
Responses(batch) ==
    {Some([prose |-> TRUE, doc |-> Array([i \in DOMAIN batch |-> GoodItem(batch[i])])]),
     Some([prose |-> FALSE, doc |-> Invalid(FALSE)]),
     Some([prose |-> FALSE, doc |-> Array(<<JsonString>>)]),
     None}

\* The exception classes that are subclasses of Exception
ExceptionClasses ==
    {"Exception", "AttributeError", "TypeError", "ValueError", "JSONDecodeError",
     "KeyError", "IndexError"}
\* Mutant of IsInstanceException: no gathered result is taken for an exception
IsInstanceNever(r) == FALSE
\* isinstance(batch_result, Exception)
IsInstanceException(r) == r.raised \in ExceptionClasses

\* "for batch_result in batch_results" from the k-th result on
RECURSIVE Extend(_, _, _)
Extend(batch_results, k, acc) ==
    IF k > Len(batch_results) THEN Returns(acc)
    ELSE IF IsInstanceException(batch_results[k]) THEN Extend(batch_results, k + 1, acc)
    ELSE IF batch_results[k].raised # "" THEN Raises("TypeError", acc)
    ELSE Extend(batch_results, k + 1, acc \o batch_results[k].value)

\* analyze_commits(): if not self.available: return []
AnalyzeUnavailable ==
    /\ analyzer # None
    /\ pc = "idle"
    /\ ~self.available
    /\ results' = Some(Returns(<<>>))
    /\ pc' = "done"
    /\ UNCHANGED <<analyzer, arg_commits, client, batches, tasks, content>>
    /\ UNCHANGED <<statsVars, parserVars, cliVars>>

\* analyze_commits(): if not commits: return []
AnalyzeNoCommits ==
    /\ analyzer # None
    /\ pc = "idle"
    /\ self.available
    /\ arg_commits = <<>>
    /\ results' = Some(Returns(<<>>))
    /\ pc' = "done"
    /\ UNCHANGED <<analyzer, arg_commits, client, batches, tasks, content>>
    /\ UNCHANGED <<statsVars, parserVars, cliVars>>

\* analyze_commits(): split, open the client, create one task per batch
AnalyzeBatches ==
    /\ analyzer # None
    /\ pc = "idle"
    /\ self.available
    /\ arg_commits # <<>>
    /\ batches' = BatchesFrom(arg_commits, 0, self.batch_size)
    /\ client' = "open"
    /\ tasks' = [k \in DOMAIN batches' |-> NewTask]
    /\ pc' = "gather"
    /\ UNCHANGED <<analyzer, arg_commits, results, content>>
    /\ UNCHANGED <<statsVars, parserVars, cliVars>>

\* _analyze_batch(): await client.chat.send_async(...)
SendRequest(k) ==
    /\ pc = "gather"
    /\ tasks[k].state = "created"
    /\ client = "open"
    /\ tasks' = [tasks EXCEPT ![k].state = "awaiting",
                              ![k].requests = Append(@, Prompt(batches[k]))]
    /\ UNCHANGED <<analyzer, arg_commits, pc, client, batches, results, content>>
    /\ UNCHANGED <<statsVars, parserVars, cliVars>>

\* _analyze_batch(): the request raises
RequestFails(k) ==
    /\ pc = "gather"
    /\ tasks[k].state = "awaiting"
    /\ tasks' = [tasks EXCEPT ![k].state = "done",
                              ![k].finished = NextFinished,
                              ![k].outcome = Raises("Exception", <<>>)]
    /\ UNCHANGED <<analyzer, arg_commits, pc, client, batches, results, content>>
    /\ UNCHANGED <<statsVars, parserVars, cliVars>>

\* _analyze_batch(): the response arrives and is parsed
RequestResponds(k, c) ==
    /\ pc = "gather"
    /\ tasks[k].state = "awaiting"
    /\ tasks' = [tasks EXCEPT ![k].state = "done",
                              ![k].finished = NextFinished,
                              ![k].response = Some(c),
                              ![k].outcome = _parse_response(c, batches[k])]
    /\ UNCHANGED <<analyzer, arg_commits, pc, client, batches, results, content>>
    /\ UNCHANGED <<statsVars, parserVars, cliVars>>

\* Mutant of Gather: the outcomes in the order the tasks completed in
GatherAsCompleted(ts) ==
    [n \in DOMAIN ts |-> ts[CHOOSE k \in DOMAIN ts : ts[k].finished = n].outcome]

\* asyncio.gather(*tasks, return_exceptions=True): the outcomes, exceptions
\* included, in the order of the awaitables passed
Gather(ts) == [k \in DOMAIN ts |-> ts[k].outcome]

\* analyze_commits(): gather is complete; merge, close the client, return
AnalyzeReturn ==
    /\ pc = "gather"
    /\ \A k \in DOMAIN tasks : tasks[k].state = "done"
    /\ results' = Some(Extend(Gather(tasks), 1, <<>>))
    /\ client' = "closed"
    /\ pc' = "done"
    /\ UNCHANGED <<analyzer, arg_commits, batches, tasks, content>>
    /\ UNCHANGED <<statsVars, parserVars, cliVars>>

\* LLMSentimentAnalyzer.analyze_commits
analyze_commits ==
    \/ AnalyzeUnavailable
    \/ AnalyzeNoCommits
    \/ AnalyzeBatches
    \/ \E k \in DOMAIN tasks : SendRequest(k)
    \/ \E k \in DOMAIN tasks : RequestFails(k)
    \/ \E k \in DOMAIN tasks : \E c \in Responses(batches[k]) : RequestResponds(k, c)
    \/ AnalyzeReturn

ApiKeyArgs == {None, Some(""), Some("test-key")}
BatchSizeArgs == {None} \cup {Some(b) : b \in 0..MaxBatchSize}

\* An analyzer constructed, analyze_commits not yet called
InitAnalyzer(api_key, batch_size, n) ==
    /\ NoCalculator
    /\ NoMessage
    /\ NoCommand
    /\ analyzer = Some(NewAnalyzer(api_key, batch_size))
    /\ arg_commits = AnalyzedCommits(n)
    /\ pc = "idle"
    /\ client = "none"
    /\ batches = <<>>
    /\ tasks = <<>>
    /\ results = None
    /\ content = None

InitSentiment ==
    \E api_key \in ApiKeyArgs, batch_size \in BatchSizeArgs, n \in 0..MaxAnalyzed :
        InitAnalyzer(api_key, batch_size, n)

SpecSentiment == InitSentiment /\ [][analyze_commits]_vars

\* The objects and strings an answer can hold as array items
Items ==
    {GoodItem(AnalyzedCommit(9)),
     EmptyObject,
     [EmptyObject EXCEPT !.sentiment = Some("excited"),
                         !.confidence = Some(JsonNumber(Frac(3, 2)))],
     [EmptyObject EXCEPT !.sentiment = Some("negative"),
                         !.confidence = Some(JsonNumber(Frac(-1, 2)))],
     [EmptyObject EXCEPT !.confidence = Some(JsonNumeral(Frac(1, 1)))],
     [EmptyObject EXCEPT !.confidence = Some(JsonWord)],
     [EmptyObject EXCEPT !.confidence = Some(JsonNull)],
     JsonString}

Docs ==
    {Array(items) : items \in ListsOf(Items, MaxItems)}
    \cup {Object(item) : item \in Items \ {JsonString}}
    \cup {Invalid(b) : b \in BOOLEAN}

Contents == {None} \cup {Some([prose |-> p, doc |-> d]) : p \in BOOLEAN, d \in Docs}

\* A direct call _parse_response(c, commits)
ParseResponse(c) ==
    /\ analyzer # None
    /\ pc = "idle"
    /\ content' = Some(c)
    /\ results' = Some(_parse_response(c, arg_commits))
    /\ pc' = "done"
    /\ UNCHANGED <<analyzer, arg_commits, client, batches, tasks>>
    /\ UNCHANGED <<statsVars, parserVars, cliVars>>

NextParseResponse == \E c \in Contents : ParseResponse(c)

InitParseResponse ==
    \E n \in 0..MaxAnalyzed : InitAnalyzer(Some("test-key"), None, n)

SpecParseResponse == InitParseResponse /\ [][NextParseResponse]_vars

(***************************************************************************)
(* Properties of the sentiment analyzer.                                   *)
(***************************************************************************)
Returned == Value(results)

\* C12: with no API key configured (none, or the empty string), analyze_commits
\* returns [] for every input list, empty or not, creates no client, issues
\* no request and does not raise.
C12_NoKeyReturnsEmpty ==
    (analyzer # None /\ (self.api_key = None \/ self.api_key = Some(""))) =>
        /\ client = "none"
        /\ batches = <<>>
        /\ tasks = <<>>
        /\ pc \in {"idle", "done"}
        /\ pc = "done" => results = Some([raised |-> "", value |-> <<>>])

\* C12 witness: a call on a non-empty list without a key has returned
C12_Witness ==
    /\ analyzer # None
    /\ self.api_key = None
    /\ Len(arg_commits) = MaxAnalyzed
    /\ pc = "done"
    /\ results = Some([raised |-> "", value |-> <<>>])

\* The k-th batch ended in an exception, of the request or of the parsing
Failed(k) == tasks[k].state = "done" /\ tasks[k].outcome.raised # ""
\* The request of the k-th batch itself failed: no response came
RequestFailed(k) == tasks[k].state = "done" /\ tasks[k].response = None
\* What the k-th batch contributes
Contribution(k) == IF Failed(k) THEN <<>> ELSE tasks[k].outcome.value
\* Where the contribution of the k-th batch starts in the returned list
RECURSIVE Offset(_)
Offset(k) == IF k = 1 THEN 0 ELSE Offset(k - 1) + Len(Contribution(k - 1))

\* C13: a batch whose request fails contributes no result and does not abort
\* the operation: every batch runs to completion, the call returns without
\* raising, the results of every other batch are in the returned list in batch
\* order, and when every batch fails the returned list is empty.
C13_FailedBatchIsolated ==
    /\ pc = "gather" =>
          \A k \in DOMAIN tasks :
              /\ tasks[k].state = "created" => ENABLED SendRequest(k)
              /\ tasks[k].state = "awaiting" =>
                    \E c \in Responses(batches[k]) : ENABLED RequestResponds(k, c)
    /\ (pc = "gather" /\ \A k \in DOMAIN tasks : tasks[k].state = "done") =>
          ENABLED AnalyzeReturn
    /\ (pc = "done" /\ batches # <<>>) =>
          /\ Returned.raised = ""
          /\ \A k \in DOMAIN tasks :
                /\ tasks[k].state = "done"
                /\ RequestFailed(k) => Failed(k)
                /\ ~RequestFailed(k) =>
                      tasks[k].outcome = _parse_response(Value(tasks[k].response), batches[k])
                /\ \A i \in 1..Len(Contribution(k)) :
                      Returned.value[Offset(k) + i] = Contribution(k)[i]
          /\ Len(Returned.value) = Offset(Len(tasks) + 1)
          /\ (\A k \in DOMAIN tasks : Failed(k)) => Returned.value = <<>>

\* C13 witness: three batches, the request of the second failed, the first and
\* the third answered, and the returned list holds the results of both.
C13_Witness ==
    /\ pc = "done"
    /\ Len(tasks) = 3
    /\ RequestFailed(2)
    /\ ~Failed(1) /\ ~Failed(3)
    /\ Len(Returned.value) = 2
    /\ Returned.value[1].sha = Slice(arg_commits[1].sha, ShaPrefixLen)
    /\ Returned.value[2].sha = Slice(arg_commits[3].sha, ShaPrefixLen)

\* The response is a string that is not a JSON array of objects: it holds no
\* JSON document at all, or a JSON array with an item that is not an object
NotAnArrayOfObjects(c) ==
    /\ c # None
    /\ \/ Value(c).doc.type = "invalid"
       \/ /\ Value(c).doc.type = "array"
          /\ \E i \in DOMAIN Value(c).doc.items : Value(c).doc.items[i].type # "object"

\* The list is one placeholder per commit of cs, in order
ArePlaceholders(rs, cs) ==
    /\ Len(rs) = Len(cs)
    /\ \A i \in DOMAIN cs :
          /\ rs[i].sentiment = "neutral"
          /\ rs[i].confidence = [num |-> 0, den |-> 1]
          /\ rs[i].summary = "Analysis failed"
          /\ Len(rs[i].sha) <= ShaPrefixLen
          /\ \A j \in DOMAIN rs[i].sha : rs[i].sha[j] = cs[i].sha[j]
          /\ Len(rs[i].sha) = ShaPrefixLen \/ Len(rs[i].sha) = Len(cs[i].sha)

\* C14 (as stated): on any failure to parse the response as a JSON array of
\* per-commit sentiment objects, _parse_response returns exactly one
\* placeholder per commit of the batch, in commit order.
C14_PlaceholdersOnAnyFailure ==
    (pc = "done" /\ content # None /\ NotAnArrayOfObjects(Value(content))) =>
        /\ Returned.raised = ""
        /\ ArePlaceholders(Returned.value, arg_commits)

\* The batches are the consecutive slices of cs of size b
ConsecutiveSlices(bs, cs, b) ==
    /\ Len(bs) = (Len(cs) + b - 1) \div b
    /\ \A k \in DOMAIN bs :
          /\ k < Len(bs) => Len(bs[k]) = b
          /\ k = Len(bs) => Len(bs[k]) \in 1..b
          /\ \A i \in DOMAIN bs[k] : bs[k][i] = cs[(k - 1) * b + i]
    /\ \A j \in DOMAIN cs :
          Cardinality({<<k, i>> \in (DOMAIN bs) \X (1..b) :
                          i \in DOMAIN bs[k] /\ (k - 1) * b + i = j}) = 1

\* C15: n commits with batch size b are split into ceil(n/b) consecutive
\* batches, every commit in exactly one, in input order, every batch but the
\* last of b commits and the last of 1..b; exactly one request goes out per
\* batch.
C15_Batching ==
    (analyzer # None /\ pc # "idle" /\ self.available /\ arg_commits # <<>>) =>
        /\ ConsecutiveSlices(batches, arg_commits, self.batch_size)
        /\ Len(tasks) = Len(batches)
        /\ \A k \in DOMAIN tasks :
              /\ Len(tasks[k].requests) = IF tasks[k].state = "created" THEN 0 ELSE 1
              /\ tasks[k].state # "created" =>
                    /\ Len(tasks[k].requests[1]) = Len(batches[k])
                    /\ \A i \in DOMAIN batches[k] :
                          tasks[k].requests[1][i] = SubSeq(batches[k][i].sha, 1, ShaPrefixLen)
        /\ pc = "done" => \A k \in DOMAIN tasks : Len(tasks[k].requests) = 1

\* C15 witness: three commits with batch size 2 went out as a batch of two and
\* a batch of one, one request each.
C15_Witness ==
    /\ analyzer # None
    /\ pc = "done"
    /\ self.batch_size = 2
    /\ Len(arg_commits) = 3
    /\ Len(batches) = 2
    /\ Len(batches[1]) = 2 /\ Len(batches[2]) = 1
    /\ \A k \in DOMAIN tasks : Len(tasks[k].requests) = 1

\* The value is in the closed interval from 0.0 to 1.0
InUnitInterval(q) == 0 <= q.num /\ q.num <= q.den /\ q.den > 0

\* The response is an array of objects with numeric confidences
AllItemsUsable(c) ==
    /\ c # None
    /\ Value(c).doc.type = "array"
    /\ \A i \in DOMAIN Value(c).doc.items :
          LET item == Value(c).doc.items[i] IN
          /\ item.type = "object"
          /\ item.confidence # None => Value(item.confidence).numeric

\* C16: a SentimentResult built with a sentiment outside the three labels
\* stores neutral, with a confidence below 0.0 stores 0.0 and above 1.0 stores
\* 1.0, and stores values in range unchanged; every SentimentResult has its
\* sentiment among the labels and its confidence in [0.0, 1.0].
C16_SentimentResultNormalised ==
    (pc = "done" /\ content # None) =>
        /\ \A i \in DOMAIN Returned.value :
              /\ Returned.value[i].sentiment \in {"positive", "neutral", "negative"}
              /\ InUnitInterval(Returned.value[i].confidence)
        /\ AllItemsUsable(Value(content)) =>
              /\ Returned.raised = ""
              /\ Len(Returned.value) = Len(Value(Value(content)).doc.items)
              /\ \A i \in DOMAIN Returned.value :
                    LET item == Value(Value(content)).doc.items[i]
                        given == IF item.sentiment = None THEN "neutral"
                                 ELSE Value(item.sentiment)
                        q == IF item.confidence = None THEN [num |-> 1, den |-> 2]
                             ELSE Value(item.confidence).value
                        r == Returned.value[i]
                    IN /\ given \in {"positive", "neutral", "negative"} => r.sentiment = given
                       /\ given \notin {"positive", "neutral", "negative"} => r.sentiment = "neutral"
                       /\ q.num < 0 => r.confidence = [num |-> 0, den |-> 1]
                       /\ q.num > q.den => r.confidence = [num |-> 1, den |-> 1]
                       /\ InUnitInterval(q) => r.confidence = q

\* C16 witness: results built from an unknown label with confidence 1.5 and
\* from a known label with confidence -0.5.
C16_Witness ==
    /\ pc = "done"
    /\ content # None
    /\ AllItemsUsable(Value(content))
    /\ Len(Returned.value) = 2
    /\ Value(Value(content)).doc.items[1].sentiment = Some("excited")
    /\ Value(Value(content)).doc.items[1].confidence = Some(JsonNumber([num |-> 3, den |-> 2]))
    /\ Returned.value[1].sentiment = "neutral"
    /\ Returned.value[1].confidence = [num |-> 1, den |-> 1]
    /\ Value(Value(content)).doc.items[2].sentiment = Some("negative")
    /\ Value(Value(content)).doc.items[2].confidence = Some(JsonNumber([num |-> -1, den |-> 2]))
    /\ Returned.value[2].sentiment = "negative"
    /\ Returned.value[2].confidence = [num |-> 0, den |-> 1]

(***************************************************************************)
(* crumbs/git/parser.py: CommitMessageParser.                              *)
(*                                                                         *)
(* A word is a token that is a run of letters; the words are chosen so     *)
(* that no run of two or more of them spells a conventional tag. The key   *)
(* token is the text "Co-authored-by:", which holds a hyphen and a colon   *)
(* and is therefore no word. Lines handed to the patterns hold no "\n".    *)
(***************************************************************************)
MaxHeadLen == 6
MaxBodyLen == 8
MaxPhaseLen == 6

Whitespace == {" ", "\n", "\t"}
DigitValue == ("0" :> 0) @@ ("1" :> 1) @@ ("2" :> 2)
\* str.lower() on the words
LowerCase == ("Feat" :> "feat") @@ ("foo" :> "foo") @@ ("PHASE" :> "phase")
CoAuthorKeys == {"Co-authored-by:"}

IsSpace(t) == t \in Whitespace
IsLetters(t) == t \in DOMAIN LowerCase
IsDigit(t) == t \in DOMAIN DigitValue

\* str.lower()
Lower(str) == [i \in DOMAIN str |-> IF IsLetters(str[i]) THEN LowerCase[str[i]] ELSE str[i]]

\* str.lstrip(), and what \s* consumes
RECURSIVE LStrip(_)
LStrip(str) == IF str # <<>> /\ IsSpace(Head(str)) THEN LStrip(Tail(str)) ELSE str
RECURSIVE RStrip(_)
RStrip(str) ==
    IF str # <<>> /\ IsSpace(str[Len(str)]) THEN RStrip(SubSeq(str, 1, Len(str) - 1)) ELSE str
\* Mutant of Strip: nothing is removed
StripNothing(str) == str
\* str.strip()
Strip(str) == RStrip(LStrip(str))

\* The index of the first token of str at or after i that satisfies P, 0 if none
Find(str, i, P(_)) ==
    LET hits == {j \in i..Len(str) : P(str[j])}
    IN IF hits = {} THEN 0 ELSE CHOOSE j \in hits : \A h \in hits : j <= h

\* str.split("\n")
RECURSIVE SplitLines(_)
SplitLines(str) ==
    LET IsNewline(t) == t = "\n"
        i == Find(str, 1, IsNewline)
    IN IF i = 0 THEN <<str>>
       ELSE <<SubSeq(str, 1, i - 1)>> \o SplitLines(SubSeq(str, i + 1, Len(str)))

\* "\n".join(lines), for a non-empty list
RECURSIVE JoinLines(_)
JoinLines(lines) ==
    IF Len(lines) = 1 THEN lines[1]
    ELSE lines[1] \o <<"\n">> \o JoinLines(Tail(lines))

\* TYPE_MAP: the tag of each CommitType but UNKNOWN
TYPE_MAP ==
    [t \in {"feat", "fix", "docs", "style", "refactor", "perf", "test", "build",
            "ci", "chore", "revert"} |-> t]
\* Mutant of TypeMapGet: every type token is taken for the tag "feat"
TypeMapGetAny(type_str) == "feat"
\* TYPE_MAP.get(type_str, CommitType.UNKNOWN)
TypeMapGet(type_str) ==
    IF Len(type_str) = 1 /\ type_str[1] \in DOMAIN TYPE_MAP
    THEN TYPE_MAP[type_str[1]]
    ELSE "unknown"

NoMatch == [matched |-> FALSE, type |-> <<>>, scope |-> None, subject |-> <<>>]

\* ":\s*(?P<subject>.+)$" from position k of line on
MatchSubject(line, k, type, scope) ==
    IF k > Len(line) \/ line[k] # ":" THEN NoMatch
    ELSE LET rest == SubSeq(line, k + 1, Len(line))
             after == LStrip(rest)
         IN IF rest = <<>> THEN NoMatch
            ELSE [matched |-> TRUE, type |-> type, scope |-> scope,
                  subject |-> IF after # <<>> THEN after ELSE <<rest[Len(rest)]>>]

\* CONVENTIONAL_PATTERN.match(line)
ConventionalMatch(line) ==
    LET NotLetters(t) == ~IsLetters(t)
        stop == Find(line, 1, NotLetters)
        n == IF stop = 0 THEN Len(line) ELSE stop - 1
        type == SubSeq(line, 1, n)
        Closes(t) == t = ")"
        close == Find(line, n + 2, Closes)
        scoped == IF n + 1 <= Len(line) /\ line[n + 1] = "(" /\ close > n + 2
                  THEN MatchSubject(line, close + 1, type, Some(SubSeq(line, n + 2, close - 1)))
                  ELSE NoMatch
    IN IF n = 0 THEN NoMatch
       ELSE IF scoped.matched THEN scoped
       ELSE MatchSubject(line, n + 1, type, None)

\* CO_AUTHOR_PATTERN.match(line)
CoAuthorMatch(line) ==
    /\ line # <<>>
    /\ line[1] \in CoAuthorKeys
    /\ Len(line) >= 2

\* ParsedMessage(commit_type=UNKNOWN, scope=None, subject="", body=None, is_conventional=False)
ParsedMessageDefault ==
    [commit_type |-> "unknown", scope |-> None, subject |-> <<>>, body |-> None,
     is_conventional |-> FALSE]

\* The loop "for line in lines[1:]" from the i-th line on
RECURSIVE BodyLoop(_, _, _, _)
BodyLoop(lines, i, started, body_lines) ==
    IF i > Len(lines) THEN body_lines
    ELSE IF ~started /\ Strip(lines[i]) = <<>> THEN BodyLoop(lines, i + 1, started, body_lines)
    ELSE IF CoAuthorMatch(lines[i]) THEN body_lines
    ELSE BodyLoop(lines, i + 1, TRUE, Append(body_lines, lines[i]))

\* Mutant of PopBlank: trailing empty lines stay
PopNothing(body_lines) == body_lines
\* while body_lines and not body_lines[-1].strip(): body_lines.pop()
RECURSIVE PopBlank(_)
PopBlank(body_lines) ==
    IF body_lines # <<>> /\ Strip(body_lines[Len(body_lines)]) = <<>>
    THEN PopBlank(SubSeq(body_lines, 1, Len(body_lines) - 1))
    ELSE body_lines

\* The body extraction of parse()
Body(lines) ==
    IF Len(lines) > 1
    THEN LET body_lines == PopBlank(BodyLoop(lines, 2, FALSE, <<>>))
         IN IF body_lines # <<>> THEN Some(JoinLines(body_lines)) ELSE None
    ELSE None

\* CommitMessageParser.parse(message)
parse(m) ==
    IF m = None \/ Value(m) = <<>> \/ Strip(Value(m)) = <<>> THEN ParsedMessageDefault
    ELSE LET lines == SplitLines(Strip(Value(m)))
             first_line == Strip(lines[1])
             match == ConventionalMatch(first_line)
             commit_type == IF match.matched THEN TypeMapGet(Lower(match.type)) ELSE "unknown"
         IN [commit_type |-> commit_type,
             scope |-> IF match.matched THEN match.scope ELSE None,
             subject |-> IF match.matched THEN Strip(match.subject) ELSE first_line,
             body |-> Body(lines),
             is_conventional |-> IF match.matched THEN commit_type # "unknown" ELSE FALSE]

\* int(digits)
RECURSIVE int(_)
int(digits) ==
    IF digits = <<>> THEN 0
    ELSE 10 * int(SubSeq(digits, 1, Len(digits) - 1)) + DigitValue[digits[Len(digits)]]

\* PHASE_PATTERN matched at position i of str: None, or the digits of group 1
PhaseMatchAt(str, i) ==
    LET NotSpace(t) == ~IsSpace(t)
        NotDigit(t) == ~IsDigit(t)
        j == Find(str, i + 1, NotSpace)
        k == Find(str, j, NotDigit)
    IN IF IsLetters(str[i]) /\ LowerCase[str[i]] = "phase" /\ j > i + 1 /\ IsDigit(str[j])
       THEN Some(SubSeq(str, j, IF k = 0 THEN Len(str) ELSE k - 1))
       ELSE None

\* Mutant of PhaseSearch: the last match is taken
RECURSIVE PhaseSearchLast(_, _)
PhaseSearchLast(str, i) ==
    IF i > Len(str) THEN None
    ELSE LET later == PhaseSearchLast(str, i + 1)
         IN IF later # None THEN later ELSE PhaseMatchAt(str, i)

\* PHASE_PATTERN.search(message): the leftmost match at or after position i
RECURSIVE PhaseSearch(_, _)
PhaseSearch(str, i) ==
    IF i > Len(str) THEN None
    ELSE IF PhaseMatchAt(str, i) # None THEN PhaseMatchAt(str, i)
    ELSE PhaseSearch(str, i + 1)

\* CommitMessageParser.detect_phase(message)
detect_phase(m) ==
    IF m = None \/ Value(m) = <<>> THEN None
    ELSE LET match == PhaseSearch(Value(m), 1)
         IN IF match # None THEN Some(int(Value(match))) ELSE None

\* A call parser.parse(message)
Parse ==
    /\ parser_result = None
    /\ parser_result' = Some(parse(message))
    /\ UNCHANGED message
    /\ UNCHANGED <<statsVars, sentimentVars, cliVars>>

\* A call parser.detect_phase(message)
DetectPhase ==
    /\ parser_result = None
    /\ parser_result' = Some(detect_phase(message))
    /\ UNCHANGED message
    /\ UNCHANGED <<statsVars, sentimentVars, cliVars>>

HeadTokens == {"Feat", "foo", "(", ")", ":", " ", "\n"}
BodyTokens == {"foo", " ", "\n", "Co-authored-by:"}
PhaseTokens == {"PHASE", " ", "\n", "1", "2"}

\* A parser and a message, None or a string over the tokens
InitParser(tokens, n) ==
    /\ NoCalculator
    /\ NoAnalyzer
    /\ NoCommand
    /\ message \in {None} \cup {Some(str) : str \in ListsOf(tokens, n)}
    /\ parser_result = None

SpecParse == InitParser(HeadTokens, MaxHeadLen) /\ [][Parse]_vars
SpecParseBody == InitParser(BodyTokens, MaxBodyLen) /\ [][Parse]_vars
SpecPhase == InitParser(PhaseTokens, MaxPhaseLen) /\ [][DetectPhase]_vars

(***************************************************************************)
(* Properties of the message parser.                                       *)
(***************************************************************************)
Parsed == Value(parser_result)
Text == Value(message)

IsBlank(str) == \A i \in DOMAIN str : str[i] \in {" ", "\n", "\t"}
\* The message is None, empty or holds nothing but whitespace
Blank == message = None \/ IsBlank(Text)

\* A string that is not blank, without the whitespace around it
Trim(str) ==
    LET black == {i \in DOMAIN str : str[i] \notin {" ", "\n", "\t"}}
    IN SubSeq(str, CHOOSE i \in black : \A h \in black : i <= h,
                   CHOOSE i \in black : \A h \in black : h <= i)

NewlinesOf(str) == {i \in DOMAIN str : str[i] = "\n"}
\* Where the k-th line of str starts and ends, nl being its newlines
LineStart(nl, k) ==
    IF k = 1 THEN 1 ELSE (CHOOSE p \in nl : Cardinality({q \in nl : q < p}) = k - 2) + 1
LineEnd(str, nl, k) ==
    IF k = Cardinality(nl) + 1 THEN Len(str)
    ELSE (CHOOSE p \in nl : Cardinality({q \in nl : q < p}) = k - 1) - 1
\* The first line of the message without the whitespace around it, itself trimmed
FirstLine ==
    LET str == Trim(Text) IN Trim(SubSeq(str, 1, LineEnd(str, NewlinesOf(str), 1)))

ConventionalTags ==
    {"feat", "fix", "docs", "style", "refactor", "perf", "test", "build", "ci",
     "chore", "revert"}

\* line reads type: subject or type(scope): subject, its type being the first n tokens
HasConventionalFormat(line, n) ==
    /\ n \in 1..Len(line)
    /\ \A m \in 1..n : line[m] \in {"Feat", "foo", "PHASE"}
    /\ \/ /\ Len(line) > n + 1
          /\ line[n + 1] = ":"
       \/ \E j \in (n + 3)..Len(line) :
              /\ line[n + 1] = "("
              /\ line[j] = ")"
              /\ \A m \in (n + 2)..(j - 1) : line[m] # ")"
              /\ Len(line) > j + 1
              /\ line[j + 1] = ":"

\* C17: parse sets is_conventional exactly when the first line (of the message
\* without the whitespace around it) matches type[(scope)]: subject and the
\* lower-cased type is one of the 11 tags, and then commit_type is that tag;
\* otherwise commit_type is unknown and is_conventional false; so
\* is_conventional holds iff commit_type is not unknown.
C17_ConventionalIffTag ==
    parser_result # None =>
        LET line == IF Blank THEN <<>> ELSE FirstLine
            tag == IF HasConventionalFormat(line, 1) THEN LowerCase[line[1]] ELSE ""
        IN /\ Parsed.is_conventional <=> tag \in ConventionalTags
           /\ Parsed.is_conventional => Parsed.commit_type = tag
           /\ ~Parsed.is_conventional => Parsed.commit_type = "unknown"
           /\ Parsed.is_conventional <=> Parsed.commit_type # "unknown"

\* C17 witness: "Feat(foo):foo" parsed as conventional feat with scope foo
C17_Witness ==
    /\ message = Some(<<"Feat", "(", "foo", ")", ":", "foo">>)
    /\ parser_result # None
    /\ Parsed.is_conventional
    /\ Parsed.commit_type = "feat"
    /\ Parsed.scope = Some(<<"foo">>)

IsString(x) == \A i \in DOMAIN x : x[i] \in HeadTokens

\* C18: parse never fails: every message maps to a ParsedMessage, and an empty
\* or whitespace-only message maps to the all-default one (commit_type unknown,
\* no scope, subject "", no body, not conventional).
C18_ParseTotal ==
    parser_result # None =>
        /\ DOMAIN Parsed = {"commit_type", "scope", "subject", "body", "is_conventional"}
        /\ Parsed.commit_type \in ConventionalTags \cup {"unknown"}
        /\ Parsed.is_conventional \in BOOLEAN
        /\ IsString(Parsed.subject)
        /\ Parsed.scope # None => Len(Parsed.scope) = 1 /\ IsString(Parsed.scope[1])
        /\ Parsed.body # None => Len(Parsed.body) = 1 /\ IsString(Parsed.body[1])
        /\ Blank =>
              Parsed = [commit_type |-> "unknown", scope |-> <<>>, subject |-> <<>>,
                        body |-> <<>>, is_conventional |-> FALSE]

\* C18 witness: a message of spaces and a newline parsed to the defaults
C18_Witness ==
    /\ message = Some(<<" ", "\n", " ">>)
    /\ parser_result # None
    /\ Parsed.commit_type = "unknown"
    /\ Parsed.subject = <<>>
    /\ Parsed.scope = None /\ Parsed.body = None
    /\ ~Parsed.is_conventional

\* C19: the body is the lines after the first, without the leading blank
\* lines, cut before the first line matching the Co-Authored-By pattern, and
\* without the trailing blank lines; none when no line remains.
C19_Body ==
    (parser_result # None /\ ~Blank) =>
        LET str == Trim(Text)
            nl == NewlinesOf(str)
            Start(k) == LineStart(nl, k)
            End(k) == LineEnd(str, nl, k)
            \* the key, then at least one character
            IsTrailer(k) == End(k) > Start(k) /\ str[Start(k)] = "Co-authored-by:"
            trailers == {k \in 2..(Cardinality(nl) + 1) : IsTrailer(k)}
            kept == {k \in 2..(Cardinality(nl) + 1) :
                        /\ \A t \in trailers : k < t
                        /\ ~IsBlank(SubSeq(str, Start(k), End(k)))}
        IN /\ kept = {} <=> Parsed.body = None
           /\ kept # {} =>
                 Parsed.body =
                    Some(SubSeq(str, Start(CHOOSE k \in kept : \A h \in kept : k <= h),
                                     End(CHOOSE k \in kept : \A h \in kept : h <= k)))

\* C19 witness: "foo\n\nfoo\n\nCo-authored-by:foo": a blank line skipped, then a
\* body line, a trailing blank line removed, the trailer cut.
C19_Witness ==
    /\ message = Some(<<"foo", "\n", "\n", "foo", "\n", "\n", "Co-authored-by:", "foo">>)
    /\ parser_result # None
    /\ Parsed.body = Some(<<"foo">>)

\* 'Phase <integer>' occurs in str at i: the word, whitespace up to j, digits from j to k
PhaseOccurs(str, i, j, k) ==
    /\ str[i] = "PHASE"
    /\ i + 1 < j /\ j <= k /\ k <= Len(str)
    /\ \A m \in (i + 1)..(j - 1) : str[m] \in {" ", "\n", "\t"}
    /\ \A m \in j..k : str[m] \in {"0", "1", "2"}
    /\ k < Len(str) => str[k + 1] \notin {"0", "1", "2"}

\* v is the integer written by the digits of str from j to k
Writes(str, v, j, k) ==
    /\ v \in 0..(10 ^ (k - j + 1) - 1)
    /\ \A m \in j..k :
          (v \div (10 ^ (k - m))) % 10 = (IF str[m] = "0" THEN 0 ELSE IF str[m] = "1" THEN 1 ELSE 2)

\* C20: detect_phase returns the integer of the first occurrence of
\* 'Phase <integer>' (in any case) anywhere in the message, whatever occurs
\* later, and none when the message is empty, None or holds no occurrence.
C20_FirstPhase ==
    parser_result # None =>
        /\ (message = None \/ Text = <<>>) => Parsed = None
        /\ message # None =>
              LET str == Text
                  occurrences == {o \in (DOMAIN str) \X (DOMAIN str) \X (DOMAIN str) :
                                      PhaseOccurs(str, o[1], o[2], o[3])}
              IN /\ Parsed = None <=> occurrences = {}
                 /\ \A o \in occurrences :
                       (\A p \in occurrences : o[1] <= p[1]) =>
                           Writes(str, Value(Parsed), o[2], o[3])

\* C20 witness: "PHASE 2PHASE\n1" gives 2, the first of two occurrences
C20_Witness ==
    /\ message = Some(<<"PHASE", " ", "2", "PHASE", "\n", "1">>)
    /\ parser_result # None
    /\ Parsed = Some(2)

(***************************************************************************)
(* Further properties of StatsCalculator.calculate.                        *)
(***************************************************************************)
\* C29: after calculate() on any commit collection the values of
\* commits_by_author, of commits_by_day and of commits_by_hour each sum to
\* total_commits, the values of commits_by_phase sum to the number of commits
\* whose phase is set, and every key present in any mapping has a count of at
\* least 1.
C29_MappingSums ==
    Done =>
        LET rs == Result
            maps == Mappings(rs)
        IN /\ rs.total_commits = Len(commits)
           /\ SumValues(rs.commits_by_author) = rs.total_commits
           /\ SumValues(rs.commits_by_day) = rs.total_commits
           /\ SumValues(rs.commits_by_hour) = rs.total_commits
           /\ SumValues(rs.commits_by_phase)
                = Cardinality({i \in DOMAIN commits : commits[i].phase # None})
           /\ \A m \in DOMAIN maps : \A k \in DOMAIN maps[m] : maps[m][k] >= 1

\* C29 witness: a result for three commits by two authors, on two days, of
\* which exactly one carries a phase.
C29_Witness ==
    /\ Done
    /\ Len(commits) = 3
    /\ Cardinality(DOMAIN Result.commits_by_author) = 2
    /\ Cardinality(DOMAIN Result.commits_by_day) = 2
    /\ SumValues(Result.commits_by_phase) = 1

(***************************************************************************)
(* The list passed to StatsCalculator() stays with the caller, who can     *)
(* write to it at any time.                                                *)
(***************************************************************************)
\* Mutant of ListCopy: self.commits = commits, the calculator keeps the
\* caller's list itself
SameList(own, written) == written

\* self.commits = list(commits): the calculator's list is a new object, which
\* a write to the caller's list does not reach
ListCopy(own, written) == own

\* The caller appends to, removes from or reverses the list it passed in
CallerWrites ==
    /\ \E new \in
            {Append(caller_commits, c) : c \in {BaseCommit, [BaseCommit EXCEPT !.author = "bob"]}}
            \cup {SubSeq(caller_commits, 1, i - 1) \o SubSeq(caller_commits, i + 1, Len(caller_commits)) :
                    i \in DOMAIN caller_commits}
            \cup {[i \in DOMAIN caller_commits |-> caller_commits[Len(caller_commits) + 1 - i]]} :
          /\ new # caller_commits
          /\ Len(new) <= MaxCommits
          /\ caller_commits' = new
          /\ commits' = ListCopy(commits, new)
    /\ UNCHANGED <<_stats, heap, returned, passes, threads>>
    /\ UNCHANGED <<sentimentVars, parserVars, cliVars>>

\* StatsCalculator(caller_commits) on a list of commits at two instants
InitCaller ==
    \E cs \in ListsOf({BaseCommit,
                        [BaseCommit EXCEPT !.author = "bob"],
                        [BaseCommit EXCEPT !.timestamp.epoch = FirstTick]}, MaxCommits) :
        InitCalculator(cs)

NextCaller == calculate \/ CallerWrites

SpecCaller == InitCaller /\ [][NextCaller]_vars

\* What calculate() returns for a calculator whose list is cs
Calculated(cs) == IF cs = <<>> THEN RepositoryStatsDefault ELSE Aggregate(cs)

\* C30: calculate() leaves the calculator's own commit list unchanged (same
\* elements in the same order), and adding to, removing from or reordering the
\* list that was passed to the constructor afterwards does not change it or
\* what calculate() returns: no step changes self.commits, and every call
\* returns the statistics of that list.
C30_OwnListUntouched ==
    /\ [][commits' = commits]_vars
    /\ [](\A i \in DOMAIN returned : returned[i].seen = Calculated(commits))

\* C30 witness: calculate() has returned the statistics of a two-commit list
\* that is out of timestamp order, and the caller's list no longer has the
\* elements, or the order, of the calculator's.
C30_Witness ==
    /\ Len(returned) >= 1
    /\ Len(commits) = 2
    /\ commits[1].timestamp.epoch > commits[2].timestamp.epoch
    /\ Len(caller_commits) = 2
    /\ caller_commits = <<commits[2], commits[1]>>

(***************************************************************************)
(* calculate() called from several threads on one StatsCalculator. A       *)
(* thread can be preempted between any two reads or writes of self._stats; *)
(* the aggregation between them works on locals and on self.commits, which *)
(* nothing writes, so it is one step with the write that ends it.          *)
(***************************************************************************)
MaxThreads == 2
Threads == 1..MaxThreads

\* A thread that has not entered calculate() yet
ThreadStart == [pc |-> "start", read |-> None]

\* if self._stats is not None: the thread reads self._stats and branches
ThreadTest(t) ==
    /\ threads[t].pc = "start"
    /\ threads' = [threads EXCEPT
            ![t] = [pc |-> IF CacheHit THEN "return" ELSE "compute", read |-> _stats]]
    /\ UNCHANGED <<commits, _stats, heap, returned, passes, caller_commits>>
    /\ UNCHANGED <<sentimentVars, parserVars, cliVars>>

\* Mutant of ThreadStore: the write is guarded, a thread that finds a result
\* stored meanwhile keeps it and stores none of its own
ThreadStoreOnce(t) ==
    /\ threads[t].pc = "compute"
    /\ IF _stats = None
       THEN /\ heap' = Append(heap, IF NoCommits THEN RepositoryStatsDefault ELSE Aggregate(commits))
            /\ _stats' = Some(Len(heap'))
            /\ passes' = IF NoCommits THEN passes ELSE passes + 1
       ELSE UNCHANGED <<heap, _stats, passes>>
    /\ threads' = [threads EXCEPT ![t].pc = "return"]
    /\ UNCHANGED <<commits, returned, caller_commits>>
    /\ UNCHANGED <<sentimentVars, parserVars, cliVars>>

\* self._stats = RepositoryStats() for no commits, else the aggregation and
\* self._stats = RepositoryStats(...)
ThreadStore(t) ==
    /\ threads[t].pc = "compute"
    /\ heap' = Append(heap, IF NoCommits THEN RepositoryStatsDefault ELSE Aggregate(commits))
    /\ _stats' = Some(Len(heap'))
    /\ passes' = IF NoCommits THEN passes ELSE passes + 1
    /\ threads' = [threads EXCEPT ![t].pc = "return"]
    /\ UNCHANGED <<commits, returned, caller_commits>>
    /\ UNCHANGED <<sentimentVars, parserVars, cliVars>>

\* return self._stats: the thread reads self._stats again and returns it
ThreadReturn(t) ==
    /\ threads[t].pc = "return"
    /\ returned' = Return(Value(_stats), heap)
    /\ threads' = [threads EXCEPT ![t].pc = "done"]
    /\ UNCHANGED <<commits, _stats, heap, passes, caller_commits>>
    /\ UNCHANGED <<sentimentVars, parserVars, cliVars>>

\* One calculator, on which every thread is about to call calculate()
InitThreads ==
    /\ \E cs \in ListsOf({BaseCommit, [BaseCommit EXCEPT !.author = "bob"]}, MaxCommits) :
          /\ caller_commits = cs
          /\ commits = cs
    /\ _stats = None
    /\ heap = <<>>
    /\ returned = <<>>
    /\ passes = 0
    /\ threads = [t \in Threads |-> ThreadStart]
    /\ NoAnalyzer
    /\ NoMessage
    /\ NoCommand

NextThreads == \E t \in Threads : ThreadTest(t) \/ ThreadStore(t) \/ ThreadReturn(t)

SpecThreads == InitThreads /\ [][NextThreads]_vars

\* The threads that found the cache empty at the test
FoundEmpty == {t \in Threads : threads[t].pc # "start" /\ threads[t].read = None}

\* C26: when several threads call calculate() on one StatsCalculator with no
\* serialization, every thread that tests the cache before any result is
\* stored goes on to aggregate and to store an object of its own: one
\* aggregation pass and one RepositoryStats object per such thread, equal in
\* value but distinct objects; only threads that test after a store reuse it.
C26_EveryEarlyThreadAggregates ==
    /\ \A t \in Threads : threads[t].pc = "compute" => t \in FoundEmpty
    /\ \A t \in Threads : threads[t].read # None => Value(threads[t].read) \in DOMAIN heap
    /\ Len(heap) = Cardinality({t \in FoundEmpty : threads[t].pc # "compute"})
    /\ passes = (IF commits = <<>> THEN 0 ELSE Len(heap))
    /\ \A i \in DOMAIN returned : returned[i].seen = Calculated(commits)

\* C26 witness: two threads passed the test before either stored, the
\* aggregation ran twice, the two calls returned different objects, and the
\* object the first call returned is no longer the cached one.
C26_Witness ==
    /\ Cardinality(FoundEmpty) = 2
    /\ passes = 2
    /\ Len(returned) = 2
    /\ returned[1].ref # returned[2].ref
    /\ _stats # Some(returned[1].ref)

(***************************************************************************)
(* Further properties of the sentiment analyzer.                           *)
(***************************************************************************)
\* The results of the batches from the k-th on that did not fail, concatenated
RECURSIVE Concatenated(_)
Concatenated(k) ==
    IF k > Len(tasks) THEN <<>> ELSE Contribution(k) \o Concatenated(k + 1)

\* C27: analyze_commits returns only after every batch request has completed
\* or failed, and the returned list is the concatenation of the successful
\* batches' results in batch submission order, whatever order the batches
\* complete in.
C27_SubmissionOrder ==
    (analyzer # None /\ pc = "done" /\ batches # <<>>) =>
        /\ \A k \in DOMAIN tasks :
              tasks[k].state = "done" /\ tasks[k].finished \in 1..Len(tasks)
        /\ \A k, j \in DOMAIN tasks : tasks[k].finished = tasks[j].finished => k = j
        /\ Returned.raised = ""
        /\ Returned.value = Concatenated(1)

\* C27 witness: three batches completed in the order third, first, second, the
\* second failed, and the call returned the results of the first before those
\* of the third.
C27_Witness ==
    /\ pc = "done"
    /\ Len(tasks) = 3
    /\ tasks[3].finished = 1 /\ tasks[1].finished = 2 /\ tasks[2].finished = 3
    /\ ~Failed(1) /\ Failed(2) /\ ~Failed(3)
    /\ Len(Returned.value) = 2
    /\ Returned.value[1].sha = Slice(arg_commits[1].sha, ShaPrefixLen)
    /\ Returned.value[2].sha = Slice(arg_commits[3].sha, ShaPrefixLen)

\* C28: when a batch response parses successfully, _parse_response returns
\* exactly one result per element of the parsed array, in array order, which
\* can be fewer or more than the commits of the batch; an element without a
\* sha takes the 8-character sha prefix of the commit at the same index, or
\* "unknown" when that index is past the end of the batch.
C28_OneResultPerElement ==
    (pc = "done" /\ content # None /\ AllItemsUsable(Value(content))) =>
        LET items == Value(Value(content)).doc.items IN
        /\ Returned.raised = ""
        /\ Len(Returned.value) = Len(items)
        /\ \A i \in DOMAIN items :
              /\ Returned.value[i].tone =
                    (IF items[i].tone = None THEN "unknown" ELSE Value(items[i].tone))
              /\ Returned.value[i].sha =
                    (IF items[i].sha # None THEN Value(items[i].sha)
                     ELSE IF i <= Len(arg_commits)
                          THEN SubSeq(arg_commits[i].sha, 1, 8)
                          ELSE <<"u", "n", "k", "n", "o", "w", "n">>)

\* C28 witness: an array of two elements, the second without a sha, answered
\* for a batch of one commit, gave two results, the second with sha "unknown";
\* the first element carries a sha and a tone of its own.
C28_Witness ==
    /\ pc = "done"
    /\ content # None
    /\ AllItemsUsable(Value(content))
    /\ Len(arg_commits) = 1
    /\ Len(Returned.value) = 2
    /\ Value(Value(content)).doc.items[1].sha # None
    /\ Value(Value(content)).doc.items[2].sha = None
    /\ Returned.value[1].tone = "confident"
    /\ Returned.value[2].sha = Unknown

(***************************************************************************)
(* crumbs/analysis/semantic.py: SemanticAnalyzer.check_compliance, beside  *)
(* CommitMessageParser.parse on the same message.                          *)
(***************************************************************************)
\* SemanticAnalyzer.CONVENTIONAL_PATTERN.match(line): one of the tags, in any
\* case, an optional scope in parentheses, a colon, and at least one more
\* character (\s* may match nothing and .+ takes whitespace too)
SemanticMatch(line) ==
    LET tags == {"feat", "fix", "docs", "style", "refactor", "perf", "test", "build",
                 "ci", "chore", "revert"}
        Closes(t) == t = ")"
        close == Find(line, 3, Closes)
        Rest(k) == k <= Len(line) /\ line[k] = ":" /\ k < Len(line)
    IN /\ line # <<>>
       /\ IsLetters(line[1])
       /\ LowerCase[line[1]] \in tags
       /\ \/ Len(line) >= 2 /\ line[2] = "(" /\ close > 3 /\ Rest(close + 1)
          \/ Rest(2)

\* SemanticAnalyzer.check_compliance(message)
check_compliance(m) ==
    IF m = None \/ Value(m) = <<>> THEN FALSE
    ELSE LET first_line == SplitLines(Strip(Value(m)))[1]
         IN SemanticMatch(first_line)

\* check_compliance(message) and parser.parse(message) are called on one message
CheckCompliance ==
    /\ parser_result = None
    /\ parser_result' = Some([check_compliance |-> check_compliance(message),
                              parse |-> parse(message)])
    /\ UNCHANGED message
    /\ UNCHANGED <<statsVars, sentimentVars, cliVars>>

SpecCompliance == InitParser(HeadTokens, MaxHeadLen) /\ [][CheckCompliance]_vars

\* C22 (as stated): for every message, check_compliance(message) is true
\* exactly when CommitMessageParser.parse(message).is_conventional is true.
C22_SameTestAsParser ==
    parser_result # None =>
        Value(parser_result).check_compliance = Value(parser_result).parse.is_conventional

(***************************************************************************)
(* crumbs/git/parser.py: CommitMessageParser.extract_co_authors.           *)
(***************************************************************************)
\* CO_AUTHOR_PATTERN.findall(str) from position p on: group 1 of every match,
\* left to right, matches not overlapping. A match begins with the key at the
\* start of a line; \s* then takes whitespace, newlines included, as far as
\* it can while a character other than a newline is left for (.+), which
\* runs to the end of that line.
RECURSIVE FindAll(_, _)
FindAll(str, p) ==
    IF p > Len(str) THEN <<>>
    ELSE LET NotSpace(t) == ~IsSpace(t)
             IsNewline(t) == t = "\n"
             q == Find(str, p + 1, NotSpace)
             blanks == {j \in (p + 1)..Len(str) : str[j] # "\n"}
             start == IF q # 0 THEN q
                      ELSE IF blanks = {} THEN 0
                      ELSE CHOOSE j \in blanks : \A b \in blanks : b <= j
             e == Find(str, start, IsNewline)
             end == IF e = 0 THEN Len(str) ELSE e - 1
         IN IF (p = 1 \/ str[p - 1] = "\n") /\ str[p] \in CoAuthorKeys /\ start # 0
            THEN <<SubSeq(str, start, end)>> \o FindAll(str, end + 1)
            ELSE FindAll(str, p + 1)

\* CommitMessageParser.extract_co_authors(message)
extract_co_authors(m) ==
    IF m = None \/ Value(m) = <<>> THEN <<>>
    ELSE LET matches == FindAll(Value(m), 1)
         IN [i \in DOMAIN matches |-> Strip(matches[i])]

\* A call parser.extract_co_authors(message)
ExtractCoAuthors ==
    /\ parser_result = None
    /\ parser_result' = Some(extract_co_authors(message))
    /\ UNCHANGED message
    /\ UNCHANGED <<statsVars, sentimentVars, cliVars>>

SpecCoAuthors == InitParser(BodyTokens, MaxBodyLen) /\ [][ExtractCoAuthors]_vars

\* The values of the lines that match "Co-Authored-By: <value>", in order
RECURSIVE TrailerValues(_)
TrailerValues(lines) ==
    IF lines = <<>> THEN <<>>
    ELSE (IF CoAuthorMatch(Head(lines)) THEN <<Strip(Tail(Head(lines)))>> ELSE <<>>)
         \o TrailerValues(Tail(lines))

\* C21 (as stated): extract_co_authors returns one entry for every line of the
\* message that matches "Co-Authored-By: <value>", in order of appearance, and
\* the empty list for an empty or none message and for a message with no such
\* line.
C21_OneEntryPerTrailerLine ==
    parser_result # None =>
        Value(parser_result) =
            (IF message = None THEN <<>> ELSE TrailerValues(SplitLines(Value(message))))

(***************************************************************************)
(* crumbs/cli.py: the commands analyze, stats and quality, and the report  *)
(* methods of crumbs/visualization/report.py that analyze ends in.         *)
(*                                                                         *)
(* A command is the sequence of calls it makes; each call returns or       *)
(* raises. An exception is [class, message]. An artifact is <<kind, i>>:   *)
(* the html or png file of the i-th figure, or a file of the report as a   *)
(* whole with i = 0. The outcome of a report method is [raised, value]     *)
(* with the artifacts it wrote as value.                                   *)
(***************************************************************************)
MaxFound == 2
MaxFigures == 2

\* The calls of a command, in order
Calls(cmd) ==
    <<"parse_date", "GitRepository", "iter_commits", "calculate">>
    \o (IF cmd.name = "analyze"
        THEN (IF cmd.sentiment THEN <<"analyze_commits">> ELSE <<>>)
             \o <<"all_charts", "report">>
        ELSE <<"print">>)

\* What a call can raise: a GitRepositoryError from GitRepository() and from
\* iter_commits(), and from any call some other subclass of Exception
Raisable(call) ==
    {[class |-> "Exception", message |-> "failed"]}
    \cup (IF call = "GitRepository"
          THEN {[class |-> "GitRepositoryError", message |-> "Not a git repository"]}
          ELSE IF call = "iter_commits"
          THEN {[class |-> "GitRepositoryError", message |-> "Git command failed"]}
          ELSE {})

\* Mutant of Except: the handler prints the error and returns
ExceptReturns(e) == [console |-> Append(console, <<"Error: ", e.message>>), exit_code |-> Some(0)]

\* except GitRepositoryError as e / except Exception as e:
\* console.print(f"[red]Error: {e}[/red]"); sys.exit(1)
Except(e) == [console |-> Append(console, <<"Error: ", e.message>>), exit_code |-> Some(1)]

\* Mutant of NotCommits: the check for an empty list is missing
NotCommitsNever(n) == FALSE

\* if not commits, for a list of n commits
NotCommits(n) == n = 0

\* The artifacts of a complete report in the given format
Artifacts(cmd) ==
    IF cmd.output_format = "html"
    THEN ({"html", "png"} \X (1..cmd.figures)) \cup {<<"data.json", 0>>, <<"index.html", 0>>}
    ELSE IF cmd.output_format = "png" THEN {"png"} \X (1..cmd.figures)
    ELSE {<<"report.json", 0>>}

\* ReportGenerator.export_png: the loop over self.figures from the i-th on
RECURSIVE export_png(_, _, _)
export_png(i, figures, exported) ==
    IF i > figures THEN Returns(exported)
    ELSE IF <<"png", i>> \in unwritable THEN Raises("Exception", exported)
    ELSE export_png(i + 1, figures, exported \cup {<<"png", i>>})

\* ReportGenerator.write_landing_page: the loop over self.figures from the
\* i-th on, then data.json and index.html
RECURSIVE write_landing_page(_, _, _)
write_landing_page(i, figures, done) ==
    IF i > figures
    THEN IF <<"data.json", 0>> \in unwritable THEN Raises("Exception", done)
         ELSE IF <<"index.html", 0>> \in unwritable
              THEN Raises("Exception", done \cup {<<"data.json", 0>>})
         ELSE Returns(done \cup {<<"data.json", 0>>, <<"index.html", 0>>})
    ELSE IF <<"html", i>> \in unwritable THEN Raises("Exception", done)
    ELSE write_landing_page(
            i + 1, figures,
            done \cup {<<"html", i>>}
                 \cup (IF <<"png", i>> \in unwritable THEN {} ELSE {<<"png", i>>}))

\* Path(output).write_text(json.dumps(report.to_json(), ...))
write_json ==
    IF <<"report.json", 0>> \in unwritable THEN Raises("Exception", {})
    ELSE Returns({<<"report.json", 0>>})

Running == command # None /\ exit_code = None
NextCall == Calls(Value(command))[cli_pc]

\* A call other than iter_commits and the report returns
CliCall ==
    /\ Running
    /\ cli_pc <= Len(Calls(Value(command)))
    /\ NextCall \notin {"iter_commits", "report"}
    /\ called' = Append(called, NextCall)
    /\ cli_pc' = cli_pc + 1
    /\ UNCHANGED <<command, unwritable, found, raised, console, exit_code, report, files>>
    /\ UNCHANGED <<statsVars, sentimentVars, parserVars>>

\* commits = list(repo.iter_commits(...)) yields n commits; with none the
\* command prints and returns
CliCollect(n) ==
    /\ Running
    /\ cli_pc <= Len(Calls(Value(command)))
    /\ NextCall = "iter_commits"
    /\ found' = Some(n)
    /\ called' = Append(called, NextCall)
    /\ IF NotCommits(n)
       THEN /\ console' = Append(console, <<"No commits found matching criteria.">>)
            /\ exit_code' = Some(0)
            /\ UNCHANGED cli_pc
       ELSE /\ cli_pc' = cli_pc + 1
            /\ UNCHANGED <<console, exit_code>>
    /\ UNCHANGED <<command, unwritable, raised, report, files>>
    /\ UNCHANGED <<statsVars, sentimentVars, parserVars>>

\* The call raises: the handler of the command prints the error and exits
CliRaise(e) ==
    /\ Running
    /\ cli_pc <= Len(Calls(Value(command)))
    /\ NextCall # "report"
    /\ e \in Raisable(NextCall)
    /\ raised' = Some(e)
    /\ console' = Except(e).console
    /\ exit_code' = Except(e).exit_code
    /\ UNCHANGED <<command, unwritable, cli_pc, found, called, report, files>>
    /\ UNCHANGED <<statsVars, sentimentVars, parserVars>>

\* analyze: the output in the format asked for
CliReport ==
    /\ Running
    /\ cli_pc <= Len(Calls(Value(command)))
    /\ NextCall = "report"
    /\ LET cmd == Value(command)
           outcome == IF cmd.output_format = "html" THEN write_landing_page(1, cmd.figures, {})
                      ELSE IF cmd.output_format = "png" THEN export_png(1, cmd.figures, {})
                      ELSE write_json
           e == [class |-> outcome.raised, message |-> "failed"]
       IN /\ report' = Some(outcome)
          /\ files' = outcome.value
          /\ IF outcome.raised # ""
             THEN /\ raised' = Some(e)
                  /\ console' = Except(e).console
                  /\ exit_code' = Except(e).exit_code
                  /\ UNCHANGED <<cli_pc, called>>
             ELSE /\ console' = Append(console, <<"written: ", cmd.output_format>>)
                  /\ called' = Append(called, NextCall)
                  /\ cli_pc' = cli_pc + 1
                  /\ UNCHANGED <<raised, exit_code>>
    /\ UNCHANGED <<command, unwritable, found>>
    /\ UNCHANGED <<statsVars, sentimentVars, parserVars>>

\* The command function returns: exit code 0
CliReturn ==
    /\ Running
    /\ cli_pc > Len(Calls(Value(command)))
    /\ exit_code' = Some(0)
    /\ UNCHANGED <<command, unwritable, cli_pc, found, called, raised, console, report, files>>
    /\ UNCHANGED <<statsVars, sentimentVars, parserVars>>

\* crumbs analyze | stats | quality
NextCli ==
    \/ CliCall
    \/ \E n \in 0..MaxFound : CliCollect(n)
    \/ \E e \in UNION {Raisable(call) : call \in {"GitRepository", "iter_commits"}} : CliRaise(e)
    \/ CliReport
    \/ CliReturn

\* A command is invoked; some artifacts of its report cannot be written
InitCli ==
    /\ NoCalculator
    /\ NoAnalyzer
    /\ NoMessage
    /\ command \in
          {Some([name |-> "analyze", output_format |-> f, sentiment |-> b, figures |-> n]) :
              f \in {"html", "png", "json"}, b \in BOOLEAN, n \in 1..MaxFigures}
          \cup {Some([name |-> c, output_format |-> "html", sentiment |-> FALSE, figures |-> 0]) :
                  c \in {"stats", "quality"}}
    /\ unwritable \in SUBSET (IF Value(command).name = "analyze" THEN Artifacts(Value(command)) ELSE {})
    /\ cli_pc = 1
    /\ found = None
    /\ called = <<>>
    /\ raised = None
    /\ console = <<>>
    /\ exit_code = None
    /\ report = None
    /\ files = {}

SpecCli == InitCli /\ [][NextCli]_vars

(***************************************************************************)
(* Properties of the commands and of the report.                           *)
(***************************************************************************)
\* C23 (as stated): a failure writing one chart artifact is isolated to that
\* artifact, in export_png and in write_landing_page: the method completes
\* and every other artifact is written.
C23_FailureIsolated ==
    (report # None /\ Value(command).output_format \in {"html", "png"}) =>
        /\ Value(report).raised = ""
        /\ files = Artifacts(Value(command)) \ unwritable

\* C24: for each of analyze, stats and quality, when the commit source
\* yields zero commits the command reports "No commits found", performs no
\* statistics calculation, sentiment analysis or report output, and exits
\* with code 0.
C24_NoCommitsFound ==
    (command # None /\ found = Some(0)) =>
        /\ exit_code = Some(0)
        /\ console = <<(<<"No commits found matching criteria.">>)>>
        /\ called = <<"parse_date", "GitRepository", "iter_commits">>
        /\ raised = None
        /\ report = None
        /\ files = {}

\* C24 witness: quality has exited on a repository that yielded no commit.
C24_Witness ==
    /\ command # None
    /\ Value(command).name = "quality"
    /\ found = Some(0)
    /\ exit_code = Some(0)
    /\ Len(console) = 1

\* C25: when opening the repository or collecting commits raises
\* GitRepositoryError, or any later call of a command raises, the command
\* prints an error containing the message and exits with code 1; no command
\* exits with code 0 after an error.
C25_ErrorExitsOne ==
    /\ raised # None =>
          /\ exit_code = Some(1)
          /\ console # <<>>
          /\ console[Len(console)] = <<"Error: ", Value(raised).message>>
    /\ exit_code = Some(0) => raised = None
    /\ exit_code = Some(1) => raised # None

\* C25 witness: stats has exited with code 1 after iter_commits raised
\* GitRepositoryError, having printed its message.
C25_Witness ==
    /\ command # None
    /\ Value(command).name = "stats"
    /\ raised = Some([class |-> "GitRepositoryError", message |-> "Git command failed"])
    /\ called = <<"parse_date", "GitRepository">>
    /\ exit_code = Some(1)

====
